---- MODULE Spec2Model ----
(***************************************************************************)
(* A model of the delegate sub-protocol of go-fdo (src/delegate.go):       *)
(* identifier matching (IsPermittedIdentifierRule) and the verification of *)
(* a delegate certificate chain (processDelegateChain).                    *)
(*                                                                         *)
(* Strings are sequences of one-character strings, so that splitting,      *)
(* space removal, regular-expression quoting and matching are computed     *)
(* character by character as the Go code computes them.                    *)
(***************************************************************************)
EXTENDS Integers, Sequences, FiniteSets, TLC

VARIABLES
    idChild,      \* IsPermittedIdentifierRule: the child argument (the name
                  \* of IsPermittedIdentifier; the name of DelegateStringToOID;
                  \* the arguments of HmacVerify; the Header to be encoded)
    idParent,     \* IsPermittedIdentifierRule: the parent argument (the two
                  \* rule lists handed to IsPermittedIdentifier; what
                  \* Header.MarshalCBOR returned)
    idResult,     \* "none" before the call, then what the call returned
    idPc,         \* "call" before the call, "done" after it
    chain,        \* the delegate chain under construction, leaf first
    vary,         \* which family of certificate attributes the run varies
    ownerKey,     \* VerifyDelegateChain: owner key argument, or Nil
    oid,          \* VerifyDelegateChain: function OID argument, or Nil
    namedOwner,   \* VerifyDelegateChain: named owner argument, or Nil
    err,          \* "pending" before VerifyDelegateChain, then its result
    gotIdentifier, \* GetIdentifier: whether it was called, and its result
    args,         \* delegate create: the key types given after the name
    delegateKeys,  \* the database: the stored delegate key and chain, or Nil
    createErr,    \* "pending" before delegate create, then its result
    printArg,     \* delegate print: the owner key type given, or Nil
    printErr,     \* "pending" before delegate print, then its result
    build,        \* which client source is built: "client.go" or "part_004"
    rvOnly,       \* the -rv-only flag
    rvInfo,       \* the rendezvous directives of the credential
    clPc,         \* where the client is
    clI,          \* transferOwnership: the TO1 target (directive) at hand
    to1d,         \* the TO1 response held, or Nil
    to2URLs,      \* the TO2 addresses being tried
    clJ,          \* transferOwnership: the TO2 address at hand
    attempts,     \* every TO1 and TO2 attempt made so far, in order
    newDC,        \* what transferOwnership returns: a credential, or Nil
    blob,         \* the credential blob on disk
    clientErr,    \* "pending" while the client runs, then its result
    peers,        \* fdo.payload: which modules run ("both", "owner", "device")
    payloads,     \* PayloadOwner.payloads
    ownerP,       \* the PayloadOwner's internal state
    deviceP,      \* the device Payload's internal state
    handler,      \* the PayloadHandler: the bytes it was given since BeginPayload
    toDevice,     \* messages written by the owner, not yet received
    toOwner,      \* messages written by the device, not yet handled
    plOver,       \* the sides whose module has ended by an error
    plLast,       \* the most recent module call and what it did
    plHist,       \* what has happened in the transfer at hand
    fsim,         \* which module pair runs: "ssh" or "bkgcred"
    sshOwner,     \* the SSHOwner
    sshDev,       \* the device SSH module
    bkgOwner,     \* the BKGcred_owner
    bkgDev,       \* the two variants of the device BKGcred, side by side
    bkgOut,       \* the messages each variant has written, in order
    fsLast,       \* the most recent call of a module and what it did
    fsHist        \* what has happened to the modules so far

idVars == <<idChild, idParent, idResult, idPc>>
dgVars == <<chain, vary, ownerKey, oid, namedOwner, err, gotIdentifier>>
cmdVars == <<args, delegateKeys, createErr, printArg, printErr>>
clVars == <<build, rvOnly, rvInfo, clPc, clI, to1d, to2URLs, clJ, attempts,
            newDC, blob, clientErr>>
plVars == <<peers, payloads, ownerP, deviceP, handler, toDevice, toOwner,
            plOver, plLast, plHist>>
fsVars == <<fsim, sshOwner, sshDev, bkgOwner, bkgDev, bkgOut, fsLast, fsHist>>
vars == <<idVars, dgVars, cmdVars, clVars, plVars, fsVars>>

\* The variables outside each part of the model.
besideIdentifier == <<dgVars, cmdVars, clVars, plVars, fsVars>>
besideDelegate == <<idVars, cmdVars, clVars, plVars, fsVars>>
besideCommand == <<idVars, dgVars, clVars, plVars, fsVars>>
besideClient == <<idVars, dgVars, cmdVars, plVars, fsVars>>
besidePayload == <<idVars, dgVars, cmdVars, clVars, fsVars>>
besideFsim == <<idVars, dgVars, cmdVars, clVars, plVars>>

\* The pointer arguments ownerKey, oid and namedOwner: a nil pointer is the
\* empty sequence, a pointer to x the sequence of x alone.
Nil == <<>>
Ptr(x) == <<x>>
Deref(p) == p[1]

----------------------------------------------------------------------------
(* Bounds of the model.                                                    *)

\* Longest identifier string handed to IsPermittedIdentifierRule.
MaxLen == 3

\* Longest delegate chain handed to VerifyDelegateChain.
MaxChain == 3

----------------------------------------------------------------------------
(* Strings: the library functions delegate.go calls.                       *)

\* strings.Replace(s, " ", "", -1)
RemoveSpaces(s) == SelectSeq(s, LAMBDA c : c # " ")

\* strings.Split(s, sep): the pieces between the separators; a string
\* without separator (the empty one included) is a single piece.
RECURSIVE Split(_, _)
Split(s, sep) ==
    IF \A i \in 1..Len(s) : s[i] # sep THEN <<s>>
    ELSE LET k == CHOOSE i \in 1..Len(s) :
                      s[i] = sep /\ \A j \in 1..(i - 1) : s[j] # sep
         IN  <<SubSeq(s, 1, k - 1)>> \o Split(SubSeq(s, k + 1, Len(s)), sep)

\* The characters regexp.QuoteMeta escapes.
RegexSpecial ==
    {"\\", ".", "+", "*", "?", "(", ")", "|", "[", "]", "{", "}", "^", "$"}

\* regexp.QuoteMeta(s): a backslash before every special character.
RECURSIVE QuoteMeta(_)
QuoteMeta(s) ==
    IF s = <<>> THEN <<>>
    ELSE (IF Head(s) \in RegexSpecial THEN <<"\\", Head(s)>> ELSE <<Head(s)>>)
         \o QuoteMeta(Tail(s))

\* strings.ReplaceAll(s, old, new): leftmost non-overlapping occurrences.
RECURSIVE ReplaceAll(_, _, _)
ReplaceAll(s, old, new) ==
    IF Len(s) < Len(old) THEN s
    ELSE IF SubSeq(s, 1, Len(old)) = old
         THEN new \o ReplaceAll(SubSeq(s, Len(old) + 1, Len(s)), old, new)
         ELSE <<Head(s)>> \o ReplaceAll(Tail(s), old, new)

\* The characters the regular expression `.` matches: Go's regexp compiles
\* without the s flag, so `.` matches every character but the line feed.
DotMatches(c) == c # "\n"

\* One pattern atom against one character: `.` or a literal.
AtomMatches(atom, c) == IF atom = "." THEN DotMatches(c) ELSE c = atom

\* regexp matching of the pattern `re` at the start of `text`, for the
\* patterns delegate.go builds: escaped literals, literals, `.`, `x*`, and
\* `$` at the end.
RECURSIVE MatchHere(_, _)
MatchHere(re, text) ==
    IF re = <<>> THEN TRUE
    ELSE IF re = <<"$">> THEN text = <<>>
    ELSE IF re[1] = "\\"
         THEN /\ text # <<>>
              /\ text[1] = re[2]
              /\ MatchHere(SubSeq(re, 3, Len(re)), Tail(text))
    ELSE IF Len(re) >= 2 /\ re[2] = "*"
         THEN \E k \in 0..Len(text) :
                 /\ \A j \in 1..k : AtomMatches(re[1], text[j])
                 /\ MatchHere(SubSeq(re, 3, Len(re)),
                              SubSeq(text, k + 1, Len(text)))
    ELSE /\ text # <<>>
         /\ AtomMatches(re[1], text[1])
         /\ MatchHere(Tail(re), Tail(text))

\* regexp.MatchString(pattern, s): a match anywhere in s, unless the pattern
\* is anchored with `^`.
MatchString(re, text) ==
    IF re # <<>> /\ re[1] = "^" THEN MatchHere(Tail(re), text)
    ELSE \E k \in 0..Len(text) : MatchHere(re, SubSeq(text, k + 1, Len(text)))

----------------------------------------------------------------------------
(* IsPermittedIdentifierRule (delegate.go 339-366).                        *)

\* regexPattern := "^" + regexp.QuoteMeta(p) + "$", then every `\*` of it
\* replaced by `.*`.
regexPattern(p) ==
    ReplaceAll(<<"^">> \o QuoteMeta(p) \o <<"$">>, <<"\\", "*">>, <<".", "*">>)

\* One child term against one parent term.
matched(c, p) == MatchString(regexPattern(p), c)

\* The inner loop: permitted becomes true at the first parent term that
\* matches c.
RECURSIVE permitted(_, _)
permitted(c, parentIdentifiers) ==
    IF parentIdentifiers = <<>> THEN FALSE
    ELSE IF matched(c, Head(parentIdentifiers)) THEN TRUE
    ELSE permitted(c, Tail(parentIdentifiers))

\* RuleLoop with the verdict of the first child term standing for all.
RuleLoop_FirstTermOnly(childIdentifiers, parentIdentifiers) ==
    childIdentifiers = <<>> \/ permitted(Head(childIdentifiers), parentIdentifiers)

\* The outer loop: false at the first child term that is not permitted.
RECURSIVE RuleLoop(_, _)
RuleLoop(childIdentifiers, parentIdentifiers) ==
    IF childIdentifiers = <<>> THEN TRUE
    ELSE IF ~permitted(Head(childIdentifiers), parentIdentifiers) THEN FALSE
    ELSE RuleLoop(Tail(childIdentifiers), parentIdentifiers)

IsPermittedIdentifierRule(child, parent) ==
    RuleLoop(Split(RemoveSpaces(child), ","), Split(RemoveSpaces(parent), ","))

----------------------------------------------------------------------------
(* Certificates and GenerateDelegate (delegate.go 417-488).                *)
(*                                                                         *)
(* A certificate is a record of the fields processDelegateChain reads.     *)
(* A key pair is named by one identifier: SignedBy is the key that signed  *)
(* the certificate, PublicKey the key it certifies.                        *)

OID_delegateOnboard == <<1, 3, 6, 1, 4, 1, 45724, 3, 1, 1>>
OID_delegateRedirect == <<1, 3, 6, 1, 4, 1, 45724, 3, 1, 2>>
OID_Identifier == <<1, 3, 6, 1, 4, 1, 45724, 3, 2>>
OID_IdentifierConstraints == <<1, 3, 6, 1, 4, 1, 45724, 3, 3>>

DelegateFlagLeaf == 0
DelegateFlagIntermediate == 1
DelegateFlagRoot == 2

\* The extension GenerateDelegate makes of ident: IdentifierConstraints on
\* a CA, Identifier on a leaf, none when ident is the empty string.
identExtension(isCA, ident) ==
    IF ident = <<>> THEN <<>>
    ELSE <<[Id |-> IF isCA THEN OID_IdentifierConstraints ELSE OID_Identifier,
            Value |-> ident]>>

\* One extension with a nil value for each permission.
permissionExtensions(permissions) ==
    [k \in 1..Len(permissions) |-> [Id |-> permissions[k], Value |-> <<>>]]

\* GenerateDelegate(key, flags, delegateKey, subject, issuer, permissions,
\* sigAlg, ident): the certificate of delegateKey, signed by key.  flags & 3
\* is flags % 4.
GenerateDelegate(key, flags, delegateKey, subject, issuer, permissions, ident) ==
    LET isCA == (flags % 4) # 0
    IN  [Subject |-> subject,
         Issuer |-> issuer,
         PublicKey |-> delegateKey,
         SignedBy |-> key,
         BasicConstraintsValid |-> TRUE,
         IsCA |-> isCA,
         KeyUsage |-> IF isCA THEN {"DigitalSignature", "CertSign"}
                      ELSE {"DigitalSignature"},
         Extensions |-> identExtension(isCA, ident)
                        \o permissionExtensions(permissions)]

----------------------------------------------------------------------------
(* processDelegateChain (delegate.go 210-336) and what it calls.           *)

\* certMissingOID(c, oid): no extension of c has the identifier oid.
certMissingOID(c, o) ==
    \A k \in 1..Len(c.Extensions) : c.Extensions[k].Id # o

\* The value of the first extension of cert with identifier id, spaces
\* removed, or the empty string.
firstExtension(cert, id) ==
    LET found == SelectSeq(cert.Extensions, LAMBDA x : x.Id = id)
    IN  IF found = <<>> THEN <<>> ELSE RemoveSpaces(found[1].Value)

GetCertIdentifierStr(cert) == firstExtension(cert, OID_Identifier)

getIdentConstraints(cert) == firstExtension(cert, OID_IdentifierConstraints)

\* rootIdent (322-327): the value, as it is, of the last
\* IdentifierConstraints extension of the last certificate walked.
rootIdent(cert) ==
    LET found == SelectSeq(cert.Extensions,
                           LAMBDA x : x.Id = OID_IdentifierConstraints)
    IN  IF found = <<>> THEN <<>> ELSE found[Len(found)].Value

\* The type switch on the owner key (228-235).
KeyType(k) ==
    IF k = "kEd" THEN "ed25519"
    ELSE IF k = "kOwnerRsa" THEN "rsa"
    ELSE "ecdsa"

\* walkedChain with the owner certificate made without the function OID.
walkedChain_OwnerWithoutOID(ch, key, o) ==
    IF key = Nil THEN ch
    ELSE LET last == ch[Len(ch)]
         IN  Append(ch, GenerateDelegate("kEphemeral", DelegateFlagRoot,
                                         Deref(key), last.Issuer, last.Issuer,
                                         <<>>, getIdentConstraints(last)))

\* The chain the loop walks (223-243): with an owner key, the chain given
\* and after it a certificate of the owner key, made by GenerateDelegate
\* with a fresh signing key, named by the issuer of the last certificate
\* and carrying its constraints and the function OID.
walkedChain(ch, key, o) ==
    IF key = Nil THEN ch
    ELSE LET last == ch[Len(ch)]
             issuer == last.Issuer
             oidArray == IF o # Nil THEN <<Deref(o)>> ELSE <<>>
         IN  Append(ch, GenerateDelegate("kEphemeral", DelegateFlagRoot,
                                         Deref(key), issuer, issuer, oidArray,
                                         getIdentConstraints(last)))

\* x509 CheckSignatureFrom (291): the signature of c verifies under the
\* public key of parent.  What the library also asks of parent (a CA that
\* may sign certificates) is asked again of every walked certificate but the
\* first by usageErr below.
CheckSignatureFrom(c, parent) == c.SignedBy = parent.PublicKey

\* The identifier of the i-th walked certificate (259-270): the Identifier
\* of the leaf, the IdentifierConstraints of any other.
constrsAt(ch, i) ==
    IF i = 1 THEN GetCertIdentifierStr(ch[1]) ELSE getIdentConstraints(ch[i])

\* identErr comparing the leaf with the certificate next to it only.
identErr_NearestOnly(i, prevOwner, constrs) ==
    IF /\ i = 2
       /\ constrs # <<>>
       /\ prevOwner # <<>>
       /\ ~IsPermittedIdentifierRule(prevOwner, constrs)
    THEN "NamedIdentifer not allowed"
    ELSE IF i # 1 /\ prevOwner = <<>> /\ constrs # <<>>
    THEN "No NamedIdentifer"
    ELSE "nil"

\* identErr without the refusal of constraints over a certificate that
\* declares nothing.
identErr_GapAllowed(i, prevOwner, constrs) ==
    IF /\ constrs # <<>>
       /\ prevOwner # <<>>
       /\ ~IsPermittedIdentifierRule(prevOwner, constrs)
    THEN "NamedIdentifer not allowed"
    ELSE "nil"

\* Lines 272-285: the identifier of the certificate below must be permitted
\* by the constraints of this one, and constraints over a certificate that
\* declares nothing are refused.
identErr(i, prevOwner, constrs) ==
    IF /\ constrs # <<>>
       /\ prevOwner # <<>>
       /\ ~IsPermittedIdentifierRule(prevOwner, constrs)
    THEN "NamedIdentifer not allowed"
    ELSE IF i # 1 /\ prevOwner = <<>> /\ constrs # <<>>
    THEN "No NamedIdentifer"
    ELSE "nil"

\* signatureErr that leaves the last certificate given unchecked against
\* the one appended after it.
signatureErr_AnchorUnchecked(ch, i) ==
    IF i >= Len(ch) - 1 THEN "nil"
    ELSE IF ~CheckSignatureFrom(ch[i], ch[i + 1]) THEN "not signed by"
    ELSE IF ch[i].Issuer # ch[i + 1].Subject THEN "issued by"
    ELSE "nil"

\* Lines 289-304: every certificate but the last is signed by, and names as
\* its issuer, the next one.
signatureErr(ch, i) ==
    IF i = Len(ch) THEN "nil"
    ELSE IF ~CheckSignatureFrom(ch[i], ch[i + 1]) THEN "not signed by"
    ELSE IF ch[i].Issuer # ch[i + 1].Subject THEN "issued by"
    ELSE "nil"

\* permissionErr asking the function OID of certificates that are not CAs
\* only.
permissionErr_LeafOnly(c, o) ==
    IF o # Nil /\ ~c.IsCA /\ certMissingOID(c, Deref(o))
    THEN "no permission" ELSE "nil"

\* Line 308: the function OID, when one is checked, is on the certificate.
permissionErr(c, o) ==
    IF o # Nil /\ certMissingOID(c, Deref(o)) THEN "no permission" ELSE "nil"

\* usageErr without the conditions on the certificates above the leaf.
usageErr_LeafRulesForAll(c, i) ==
    IF "DigitalSignature" \notin c.KeyUsage THEN "No Digital Signature Usage"
    ELSE IF ~c.BasicConstraintsValid THEN "Basic Constraints not valid"
    ELSE "nil"

\* Lines 309-316: key usage and basic constraints.
usageErr(c, i) ==
    IF "DigitalSignature" \notin c.KeyUsage THEN "No Digital Signature Usage"
    ELSE IF ~c.BasicConstraintsValid THEN "Basic Constraints not valid"
    ELSE IF i # 1 /\ ~c.IsCA THEN "Not a CA"
    ELSE IF i # 1 /\ "CertSign" \notin c.KeyUsage THEN "No CertSign Usage"
    ELSE "nil"

\* The loop over the walked chain (247-317), from certificate i on:
\* the first error, or "nil".
RECURSIVE chainLoop(_, _, _, _)
chainLoop(ch, i, prevOwner, o) ==
    LET c == ch[i]
        constrs == constrsAt(ch, i)
        checks == <<identErr(i, prevOwner, constrs), signatureErr(ch, i),
                    permissionErr(c, o), usageErr(c, i)>>
        failed == {k \in 1..Len(checks) : checks[k] # "nil"}
    IN  IF failed # {}
        THEN checks[CHOOSE k \in failed : \A m \in failed : k <= m]
        ELSE IF i = Len(ch) THEN "nil"
        ELSE chainLoop(ch, i + 1, constrs, o)

\* namedOwnerErr that never refuses.
namedOwnerErr_Unchecked(last, owner) == "nil"

\* namedOwnerErr with the arguments of IsPermittedIdentifierRule exchanged:
\* the named owner permitted by the root.
namedOwnerErr_OwnerWithinRoot(last, owner) ==
    IF /\ owner # Nil
       /\ rootIdent(last) # <<>>
       /\ ~IsPermittedIdentifierRule(Deref(owner), rootIdent(last))
    THEN "root only scoped" ELSE "nil"

\* Lines 319-333: the named owner against the constraints of the last
\* certificate walked.
namedOwnerErr(last, owner) ==
    IF /\ owner # Nil
       /\ rootIdent(last) # <<>>
       /\ ~IsPermittedIdentifierRule(rootIdent(last), Deref(owner))
    THEN "root only scoped" ELSE "nil"

processDelegateChain(ch, key, o, owner) ==
    IF Len(ch) = 0 THEN "Empty chain"
    ELSE IF key # Nil /\ KeyType(Deref(key)) \notin {"ecdsa", "rsa"}
    THEN "Unknown key type"
    ELSE LET walked == walkedChain(ch, key, o)
             loopErr == chainLoop(walked, 1, <<>>, o)
         IN  IF loopErr # "nil" THEN loopErr
             ELSE namedOwnerErr(walked[Len(walked)], owner)

VerifyDelegateChain(ch, key, o, owner) == processDelegateChain(ch, key, o, owner)

\* GetIdentifier for a function that does not look at the length; what it
\* returns for an empty chain stands for reading chain[0] of it.
GetIdentifier_Unchecked(ch) ==
    [id |-> Ptr(IF Len(ch) = 0 THEN <<>> ELSE GetCertIdentifierStr(ch[1])),
     err |-> "nil"]

\* GetIdentifier (delegate.go 198-206): the identifier of the first
\* certificate, or an error for an empty chain.
GetIdentifier(ch) ==
    IF Len(ch) = 0 THEN [id |-> Nil, err |-> "Cannot verify empty chain"]
    ELSE [id |-> Ptr(GetCertIdentifierStr(ch[1])), err |-> "nil"]

----------------------------------------------------------------------------
(* The identifier specification: IsPermittedIdentifierRule applied to      *)
(* every pair of strings within the bounds.                                *)

\* Characters of a child identifier: two literals that differ in case only,
\* the wildcard, the dot, the term separator, the space and the line feed.
ChildChars == {"a", "A", "*", ".", ",", " ", "\n"}

\* Characters of a parent constraint list.
ParentChars == {"a", "*", ".", ",", " "}

RECURSIVE StringsUpTo(_, _)
StringsUpTo(chars, n) ==
    IF n = 0 THEN {<<>>}
    ELSE LET shorter == StringsUpTo(chars, n - 1)
         IN  shorter \cup {Append(s, c) : s \in shorter, c \in chars}

\* The delegate variables while the identifier specification runs.
DelegateIdle ==
    /\ chain = <<>>
    /\ vary = "none"
    /\ ownerKey = Nil
    /\ oid = Nil
    /\ namedOwner = Nil
    /\ err = "pending"
    /\ gotIdentifier = <<>>

\* The identifier variables while another specification runs.
IdentifierIdle ==
    /\ idChild = <<>>
    /\ idParent = <<>>
    /\ idResult = "none"
    /\ idPc = "idle"

\* The delegate command's variables while another specification runs.
CommandIdle ==
    /\ args = <<>>
    /\ delegateKeys = Nil
    /\ createErr = "idle"
    /\ printArg = Nil
    /\ printErr = "idle"

\* The client's variables while another specification runs.
ClientIdle ==
    /\ build = "none"
    /\ rvOnly = FALSE
    /\ rvInfo = <<>>
    /\ clPc = "idle"
    /\ clI = 0
    /\ to1d = Nil
    /\ to2URLs = <<>>
    /\ clJ = 0
    /\ attempts = <<>>
    /\ newDC = Nil
    /\ blob = "none"
    /\ clientErr = "idle"

\* The payload modules' variables while another specification runs.
PayloadIdle ==
    /\ peers = "none"
    /\ payloads = <<>>
    /\ ownerP = <<>>
    /\ deviceP = <<>>
    /\ handler = <<>>
    /\ toDevice = <<>>
    /\ toOwner = <<>>
    /\ plOver = {}
    /\ plLast = <<>>
    /\ plHist = <<>>

\* The variables of fdo.ssh and BKGcred while another specification runs.
FsimIdle ==
    /\ fsim = "none"
    /\ sshOwner = <<>>
    /\ sshDev = <<>>
    /\ bkgOwner = <<>>
    /\ bkgDev = <<>>
    /\ bkgOut = <<>>
    /\ fsLast = <<>>
    /\ fsHist = <<>>

\* Everything outside the identifier, delegate and command parts is idle.
RestIdle == ClientIdle /\ PayloadIdle /\ FsimIdle

InitIdentifier ==
    /\ idChild \in StringsUpTo(ChildChars, MaxLen)
    /\ idParent \in StringsUpTo(ParentChars, MaxLen)
    /\ idResult = "none"
    /\ idPc = "call"
    /\ DelegateIdle
    /\ CommandIdle
    /\ RestIdle

CallIsPermittedIdentifierRule ==
    /\ idPc = "call"
    /\ idResult' = IF IsPermittedIdentifierRule(idChild, idParent)
                   THEN "true" ELSE "false"
    /\ idPc' = "done"
    /\ UNCHANGED <<idChild, idParent, besideIdentifier>>

NextIdentifier == CallIsPermittedIdentifierRule

SpecIdentifier == InitIdentifier /\ [][NextIdentifier]_vars

----------------------------------------------------------------------------
(* IsPermittedIdentifier (delegate.go 379-397), applied to a name and to   *)
(* two rule lists, apart and joined by a comma.                            *)

\* Longest name and longest rule list handed to IsPermittedIdentifier.
MaxName == 2

\* Characters of a name, and characters of a rule list.
NameChars == {"a", "*", ",", " ", "\n"}
RuleChars == {"a", "*", ",", " "}

\* cleanName for a function that keeps the spaces of the name.
cleanName_Keeps(name) == name

\* delegate.go 380: name = strings.Replace(name, " ", "", -1).
cleanName(name) == RemoveSpaces(name)

\* anyMatches for a loop that gives up after the first rule.
anyMatches_FirstOnly(name, names) ==
    names # <<>> /\ matched(name, Head(names))

\* The loop of delegate.go 382-395: true at the first rule that matches.
RECURSIVE anyMatches(_, _)
anyMatches(name, names) ==
    IF names = <<>> THEN FALSE
    ELSE IF matched(name, Head(names)) THEN TRUE
    ELSE anyMatches(name, Tail(names))

IsPermittedIdentifier(name, permittedNames) ==
    anyMatches(cleanName(name), Split(RemoveSpaces(permittedNames), ","))

InitPermitted ==
    /\ idChild \in StringsUpTo(NameChars, MaxName)
    /\ idParent \in StringsUpTo(RuleChars, MaxName)
                    \X StringsUpTo(RuleChars, MaxName)
    /\ idResult = "none"
    /\ idPc = "call"
    /\ DelegateIdle
    /\ CommandIdle
    /\ RestIdle

\* IsPermittedIdentifier(x, x), (x, a + "," + b), (x, a) and (x, b), and
\* IsPermittedIdentifierRule(x, a) and (x, a + "," + b).
CallIsPermittedIdentifier ==
    /\ idPc = "call"
    /\ idResult' =
          [self |-> IsPermittedIdentifier(idChild, idChild),
           joined |-> IsPermittedIdentifier(
                         idChild, idParent[1] \o <<",">> \o idParent[2]),
           left |-> IsPermittedIdentifier(idChild, idParent[1]),
           right |-> IsPermittedIdentifier(idChild, idParent[2]),
           rule |-> IsPermittedIdentifierRule(idChild, idParent[1]),
           ruleJoined |-> IsPermittedIdentifierRule(
                             idChild, idParent[1] \o <<",">> \o idParent[2])]
    /\ idPc' = "done"
    /\ UNCHANGED <<idChild, idParent, besideIdentifier>>

NextPermitted == CallIsPermittedIdentifier

SpecPermitted == InitPermitted /\ [][NextPermitted]_vars

----------------------------------------------------------------------------
(* IsPermittedIdentifierRule (delegate.go 339-366) along a chain of three  *)
(* identifiers: applied to the first and the second, to the second and the *)
(* third, and to the first and the third.                                  *)

\* Characters of the three identifiers: a literal, the wildcard, the term
\* separator and the line feed.
ChainChars == {"a", "*", ",", "\n"}

\* idChild is the first identifier, idParent the second and the third.
InitRuleChain ==
    /\ idChild \in StringsUpTo(ChainChars, MaxName)
    /\ idParent \in StringsUpTo(ChainChars, MaxName)
                    \X StringsUpTo(ChainChars, MaxName)
    /\ idResult = "none"
    /\ idPc = "call"
    /\ DelegateIdle
    /\ CommandIdle
    /\ RestIdle

CallRuleChain ==
    /\ idPc = "call"
    /\ idResult' =
          [lower |-> IsPermittedIdentifierRule(idChild, idParent[1]),
           upper |-> IsPermittedIdentifierRule(idParent[1], idParent[2]),
           across |-> IsPermittedIdentifierRule(idChild, idParent[2])]
    /\ idPc' = "done"
    /\ UNCHANGED <<idChild, idParent, besideIdentifier>>

NextRuleChain == CallRuleChain

SpecRuleChain == InitRuleChain /\ [][NextRuleChain]_vars

----------------------------------------------------------------------------
(* The function OIDs (delegate.go 31-38) and their names:                  *)
(* DelegateStringToOID (64-74) and DelegateOIDtoString (53-62), one after  *)
(* the other, starting from a name or from an OID.                         *)

OID_delegateBase == <<1, 3, 6, 1, 4, 1, 45724, 3>>
OID_delegateUpload == <<1, 3, 6, 1, 4, 1, 45724, 3, 1, 3>>
OID_delegateClaim == <<1, 3, 6, 1, 4, 1, 45724, 3, 1, 4>>
OID_delegateProvision == <<1, 3, 6, 1, 4, 1, 45724, 3, 1, 5>>
OID_delegateExtend == <<1, 3, 6, 1, 4, 1, 45724, 3, 1, 6>>

\* The six function roles, and the OID of each.
Roles == {"onboard", "redirect", "upload", "claim", "provision", "extend"}
RoleOID(role) ==
    CASE role = "onboard" -> OID_delegateOnboard
      [] role = "redirect" -> OID_delegateRedirect
      [] role = "upload" -> OID_delegateUpload
      [] role = "claim" -> OID_delegateClaim
      [] role = "provision" -> OID_delegateProvision
      [] role = "extend" -> OID_delegateExtend

\* Strings that name no role, and OIDs of no role.
OtherNames ==
    {"", " ", "Onboard", "Redirect", "Upload", "Claim", "Provision", "Extend",
     "onboard ", "redirect ", "upload ", "claim ", "provision ", "extend ",
     "identifier", "identConstraints", "Unknown", "1", "2", "3", "4", "5", "6",
     "7", "fdo", "onboard,redirect"}
OtherOIDs ==
    {<<>>, OID_delegateBase, OID_Identifier, OID_IdentifierConstraints,
     <<1, 3, 6, 1, 4, 1, 45724, 3, 1, 0>>, <<1, 3, 6, 1, 4, 1, 45724, 3, 1, 7>>}

\* DelegateOIDtoString: the name, or "Unknown" for the text that begins so.
DelegateOIDtoString(o) ==
    IF o = OID_delegateOnboard THEN "onboard"
    ELSE IF o = OID_delegateUpload THEN "upload"
    ELSE IF o = OID_delegateRedirect THEN "redirect"
    ELSE IF o = OID_delegateClaim THEN "claim"
    ELSE IF o = OID_delegateProvision THEN "provision"
    ELSE IF o = OID_Identifier THEN "identifier"
    ELSE IF o = OID_IdentifierConstraints THEN "identConstraints"
    ELSE "Unknown"

\* DelegateStringToOID: the OID and the error returned.
DelegateStringToOID(str) ==
    IF str = "onboard" THEN [oid |-> OID_delegateOnboard, err |-> "nil"]
    ELSE IF str = "upload" THEN [oid |-> OID_delegateUpload, err |-> "nil"]
    ELSE IF str = "redirect" THEN [oid |-> OID_delegateRedirect, err |-> "nil"]
    ELSE IF str = "claim" THEN [oid |-> OID_delegateClaim, err |-> "nil"]
    ELSE IF str = "provision"
    THEN [oid |-> OID_delegateProvision, err |-> "nil"]
    ELSE [oid |-> OID_delegateBase, err |-> "Invalid Delegate OID string"]

\* The call starts from a name (idParent = "name") or from an OID ("oid");
\* idResult holds the name, the OID and the error at hand.
InitOID ==
    /\ idParent \in {"name", "oid"}
    /\ idChild \in IF idParent = "name"
                   THEN {[name |-> n, oid |-> <<>>] : n \in Roles \cup OtherNames}
                   ELSE {[name |-> "", oid |-> o] :
                            o \in {RoleOID(r) : r \in Roles} \cup OtherOIDs}
    /\ idResult = [name |-> idChild.name, oid |-> idChild.oid, err |-> "nil"]
    /\ idPc = IF idParent = "name" THEN "toOID" ELSE "toString"
    /\ DelegateIdle
    /\ CommandIdle
    /\ RestIdle

CallDelegateStringToOID ==
    /\ idPc = "toOID"
    /\ idResult.err = "nil"
    /\ idResult' = [idResult EXCEPT
                      !.oid = DelegateStringToOID(idResult.name).oid,
                      !.err = DelegateStringToOID(idResult.name).err]
    /\ idPc' = IF idParent = "name" THEN "toString" ELSE "done"
    /\ UNCHANGED <<idChild, idParent, besideIdentifier>>

CallDelegateOIDtoString ==
    /\ idPc = "toString"
    /\ idResult.err = "nil"
    /\ idResult' = [idResult EXCEPT !.name = DelegateOIDtoString(idResult.oid)]
    /\ idPc' = IF idParent = "oid" THEN "toOID" ELSE "done"
    /\ UNCHANGED <<idChild, idParent, besideIdentifier>>

NextOID ==
    \/ CallDelegateStringToOID
    \/ CallDelegateOIDtoString

SpecOID == InitOID /\ [][NextOID]_vars

----------------------------------------------------------------------------
(* HmacVerify (unnamed/part_010 67-79), applied to every keyed hasher,     *)
(* given HMAC and value within the bounds.                                 *)

\* Longest HMAC value and longest value handed to HmacVerify.
MaxMac == 2

\* part_010 39-44: the hash algorithms.
Sha256Hash == -16
Sha384Hash == -43
HmacSha256Hash == 5
HmacSha384Hash == 6
HashAlgs == {Sha256Hash, Sha384Hash, HmacSha256Hash, HmacSha384Hash}

\* An error: the sentinel it wraps ("" for none) and its text; NoError is nil.
Error(wraps, text) == [wraps |-> wraps, text |-> text]
NoError == Error("", "nil")

\* Bytes, and the byte strings up to a length.
Bytes == {0, 1}

\* The values given to be authenticated: byte strings, and one value that
\* has no CBOR encoding (a channel, say), written as the sequence of -1.
Unencodable == <<-1>>
HmacValues == StringsUpTo(Bytes, MaxMac) \cup {Unencodable}

RECURSIVE SumOf(_)
SumOf(s) == IF s = <<>> THEN 0 ELSE Head(s) + SumOf(Tail(s))

\* The MAC a keyed hasher computes: as many bytes as the algorithm gives
\* (one for SHA-256, two for SHA-384), each depending on the secret, on the
\* value and on its place.
macBytes(alg, secret, v) ==
    [i \in 1..(IF alg = HmacSha256Hash THEN 1 ELSE 2) |->
        (secret + SumOf(v) + Len(v) * (i - 1)) % 2]

\* KeyedHasher.Hmac (part_010 61-65) of a hasher that holds a secret: the
\* value is encoded, then the MAC is computed with an HMAC algorithm.
Hmac(dc, alg, v) ==
    IF v = Unencodable
    THEN [hmac |-> [Algorithm |-> 0, Value |-> <<>>],
          err |-> Error("", "unsupported type")]
    ELSE IF alg \notin {HmacSha256Hash, HmacSha384Hash}
    THEN [hmac |-> [Algorithm |-> 0, Value |-> <<>>],
          err |-> Error("", "unsupported hash algorithm")]
    ELSE [hmac |-> [Algorithm |-> alg, Value |-> macBytes(alg, dc, v)],
          err |-> NoError]

\* hmacEqual for a comparison that looks at the lengths only.
hmacEqual_LengthOnly(mac1, mac2) == Len(mac1) = Len(mac2)

\* hmac.Equal: the same length and the same bytes.
hmacEqual(mac1, mac2) == mac1 = mac2

\* part_010 70-79.
HmacVerify(dc, h1, v) ==
    LET h2 == Hmac(dc, h1.Algorithm, v)
    IN  IF h2.err # NoError THEN h2.err
        ELSE IF ~hmacEqual(h1.Value, h2.hmac.Value)
        THEN Error("ErrCryptoVerifyFailed", "hmac did not match")
        ELSE NoError

\* idChild holds the arguments: the hasher's secret, the given HMAC and the
\* value.
InitHmac ==
    /\ idChild \in [dc : Bytes,
                    h1 : [Algorithm : HashAlgs,
                          Value : StringsUpTo(Bytes, MaxMac)],
                    v : HmacValues]
    /\ idParent = <<>>
    /\ idResult = "none"
    /\ idPc = "call"
    /\ DelegateIdle
    /\ CommandIdle
    /\ RestIdle

CallHmacVerify ==
    /\ idPc = "call"
    /\ idResult' = HmacVerify(idChild.dc, idChild.h1, idChild.v)
    /\ idPc' = "done"
    /\ UNCHANGED <<idChild, idParent, besideIdentifier>>

NextHmac == CallHmacVerify

SpecHmac == InitHmac /\ [][NextHmac]_vars

----------------------------------------------------------------------------
(* The COSE header (unnamed/part_005): Header.MarshalCBOR (29-43) and      *)
(* Header.UnmarshalCBOR (45-71), one after the other, over the CBOR        *)
(* encoding of small integers, short strings, arrays and maps.  Byte       *)
(* strings, encodings and text are sequences of numbers below 256.         *)

\* Most entries of a protected header map.
MaxEntries == 2

\* Result of an encoder: the bytes and the error ("nil" for none).
Encoded(bytes, error) == [bytes |-> bytes, err |-> error]

\* cbor.Marshal of an integer between -24 and 23: one byte, major type 0 or 1.
marshalInt(n) == IF n >= 0 THEN <<n>> ELSE <<32 + (-1 - n)>>

\* cbor.Marshal of a text string and of a byte string shorter than 24.
marshalText(s) == <<96 + Len(s)>> \o s
marshalBstr(b) == <<64 + Len(b)>> \o b

\* A header value (any): an integer <<"int", <<n>>>> or a text string
\* <<"text", s>>.
marshalValue(v) ==
    IF v[1] = "int" THEN marshalInt(v[2][1]) ELSE marshalText(v[2])

\* marshalLabel for a label that encodes its Str field.
marshalLabel_Str(l) ==
    IF l.Int64 # 0 THEN Encoded(marshalInt(l.Int64), "nil")
    ELSE Encoded(marshalText(l.Str), "nil")

\* Label.MarshalCBOR (151-158): a label other than 0 is encoded as its
\* integer; otherwise cbor.Marshal is handed l.String, the method value (a
\* func() string), and not the field l.Str: a function has no encoding.
marshalLabel(l) ==
    IF l.Int64 # 0 THEN Encoded(marshalInt(l.Int64), "nil")
    ELSE Encoded(<<>>, "unsupported type: func() string")

\* The order of map keys in the encoding: shorter first, then bytewise.
RECURSIVE BytesLess(_, _)
BytesLess(a, b) ==
    IF Len(a) # Len(b) THEN Len(a) < Len(b)
    ELSE IF a = <<>> THEN FALSE
    ELSE IF Head(a) # Head(b) THEN Head(a) < Head(b)
    ELSE BytesLess(Tail(a), Tail(b))

\* The encoded pairs of a map, in key order.  A map is a set of
\* <<label, raw value>> pairs with distinct labels.
RECURSIVE marshalPairs(_)
marshalPairs(m) ==
    IF m = {} THEN <<>>
    ELSE LET first == CHOOSE p \in m : \A q \in m \ {p} :
                          BytesLess(marshalLabel(p[1]).bytes,
                                    marshalLabel(q[1]).bytes)
         IN  marshalLabel(first[1]).bytes \o first[2]
             \o marshalPairs(m \ {first})

\* cbor.Marshal of a rawHeaderMap: fails when a label fails.
marshalRawHeaderMap(m) ==
    IF \E p \in m : marshalLabel(p[1]).err # "nil"
    THEN Encoded(<<>>, marshalLabel(
                          (CHOOSE p \in m : marshalLabel(p[1]).err # "nil")[1]
                       ).err)
    ELSE Encoded(<<160 + Cardinality(m)>> \o marshalPairs(m), "nil")

\* newRawHeaderMap (182-193): every value marshalled, under its label.
newRawHeaderMap(unmarshaled) ==
    {<<p[1], marshalValue(p[2])>> : p \in unmarshaled}

\* omitEmpty for a wrapper that passes every encoding on.
omitEmpty_Never(b) == b

\* omitEmpty.MarshalCBOR (213-227): the one-byte encodings of zero, of the
\* empty byte and text strings, of the empty array and of the empty map
\* become no bytes at all.
omitEmpty(b) ==
    IF Len(b) # 1 THEN b
    ELSE IF b[1] \in {0, 64, 96, 128, 160} THEN <<>>
    ELSE b

\* cbor.Marshal of an emptyOrSerializedMap (195-208): a byte string around
\* what omitEmpty gives for the encoded map.
marshalEmptyOrSerializedMap(m) ==
    IF marshalRawHeaderMap(m).err # "nil" THEN marshalRawHeaderMap(m)
    ELSE Encoded(marshalBstr(omitEmpty(marshalRawHeaderMap(m).bytes)), "nil")

\* Header.MarshalCBOR (29-43): cborHeader (73-76) is encoded as the array of
\* the protected and the unprotected part.
MarshalCBOR(hdr) ==
    LET protectedHeader == newRawHeaderMap(hdr.Protected)
        unprotectedHeader == newRawHeaderMap(hdr.Unprotected)
        first == marshalEmptyOrSerializedMap(protectedHeader)
        second == marshalRawHeaderMap(unprotectedHeader)
    IN  IF first.err # "nil" THEN first
        ELSE IF second.err # "nil" THEN second
        ELSE Encoded(<<130>> \o first.bytes \o second.bytes, "nil")

\* Decoding.  The length of the first data item of b, or -1 when b does not
\* begin with a whole item of the kinds above.
RECURSIVE itemLen(_)
RECURSIVE itemsLen(_, _)
itemLen(b) ==
    IF b = <<>> \/ b[1] % 32 >= 24 THEN -1
    ELSE LET major == b[1] \div 32
             info == b[1] % 32
         IN  IF major \in {0, 1} THEN 1
             ELSE IF major \in {2, 3}
             THEN (IF Len(b) >= 1 + info THEN 1 + info ELSE -1)
             ELSE IF major \in {4, 5}
             THEN LET within == itemsLen(Tail(b),
                                         IF major = 4 THEN info ELSE 2 * info)
                  IN  IF within < 0 THEN -1 ELSE 1 + within
             ELSE -1

\* The length of the first n data items of b together, or -1.
itemsLen(b, n) ==
    IF n = 0 THEN 0
    ELSE LET first == itemLen(b)
         IN  IF first < 0 THEN -1
             ELSE LET others == itemsLen(SubSeq(b, first + 1, Len(b)), n - 1)
                  IN  IF others < 0 THEN -1 ELSE first + others

\* The first n data items of b, each as its bytes.
RECURSIVE rawItems(_, _)
rawItems(b, n) ==
    IF n = 0 THEN <<>>
    ELSE <<SubSeq(b, 1, itemLen(b))>>
         \o rawItems(SubSeq(b, itemLen(b) + 1, Len(b)), n - 1)

\* b is exactly one data item of the given major type.
isItem(b, major) == b # <<>> /\ itemLen(b) = Len(b) /\ b[1] \div 32 = major

\* cbor.Unmarshal into an any (54-58, 162-165): an integer, a text string,
\* or something else.
unmarshalAny(raw) ==
    IF isItem(raw, 0) THEN <<"int", <<raw[1] % 32>>>>
    ELSE IF isItem(raw, 1) THEN <<"int", <<-1 - (raw[1] % 32)>>>>
    ELSE IF isItem(raw, 3) THEN <<"text", Tail(raw)>>
    ELSE <<"other", raw>>

\* Label.UnmarshalCBOR (160-177); Int64 = 0 and Str = "other" for an error.
unmarshalLabel(raw) ==
    LET v == unmarshalAny(raw)
    IN  IF v[1] = "int" THEN [Int64 |-> v[2][1], Str |-> <<>>]
        ELSE IF v[1] = "text" THEN [Int64 |-> 0, Str |-> v[2]]
        ELSE [Int64 |-> 0, Str |-> "other"]

\* cbor.Unmarshal into a rawHeaderMap: the labels decoded, the values kept
\* as bytes.
unmarshalRawHeaderMap(b) ==
    IF ~isItem(b, 5) THEN [m |-> {}, err |-> "not a map"]
    ELSE LET items == rawItems(Tail(b), 2 * (b[1] % 32))
             pairs == {<<unmarshalLabel(items[2 * i - 1]), items[2 * i]>> :
                          i \in 1..(b[1] % 32)}
         IN  IF \E p \in pairs : p[1].Str = "other"
             THEN [m |-> {}, err |-> "unexpected label type"]
             ELSE [m |-> pairs, err |-> "nil"]

\* omitEmpty.UnmarshalCBOR (229) inside cbor.Bstr: the byte string is
\* opened and its content decoded as a map; no bytes at all stand for the
\* empty map.
unmarshalEmptyOrSerializedMap(b) ==
    IF ~isItem(b, 2) THEN [m |-> {}, err |-> "not a byte string"]
    ELSE IF Tail(b) = <<>> THEN [m |-> {}, err |-> "nil"]
    ELSE unmarshalRawHeaderMap(Tail(b))

\* Header.UnmarshalCBOR (45-71).
UnmarshalCBOR(b) ==
    LET none == [Protected |-> {}, Unprotected |-> {}]
    IN  IF ~(isItem(b, 4) /\ b[1] % 32 = 2)
        THEN [hdr |-> none, err |-> "not an array of two"]
        ELSE LET parts == rawItems(Tail(b), 2)
                 first == unmarshalEmptyOrSerializedMap(parts[1])
                 second == unmarshalRawHeaderMap(parts[2])
             IN  IF first.err # "nil" THEN [hdr |-> none, err |-> first.err]
                 ELSE IF second.err # "nil"
                 THEN [hdr |-> none, err |-> second.err]
                 ELSE [hdr |-> [Protected |->
                                   {<<p[1], unmarshalAny(p[2])>> : p \in first.m},
                                Unprotected |->
                                   {<<p[1], unmarshalAny(p[2])>> : p \in second.m}],
                       err |-> "nil"]

\* The labels and the values of the headers tried: the labels 1 (alg), 4
\* (kid) and -1, and the text label "a"; the values -7 (ES256), 0 and the
\* text "b".
HeaderLabels ==
    {[Int64 |-> 1, Str |-> <<>>], [Int64 |-> 4, Str |-> <<>>],
     [Int64 |-> -1, Str |-> <<>>], [Int64 |-> 0, Str |-> <<97>>]}
HeaderValues == {<<"int", <<-7>>>>, <<"int", <<0>>>>, <<"text", <<98>>>>}

\* The header maps of at most n entries, no label twice.
HeaderMaps(n) ==
    {m \in SUBSET (HeaderLabels \X HeaderValues) :
        /\ Cardinality(m) <= n
        /\ \A p, q \in m : p[1] = q[1] => p = q}

\* idChild holds the header, idParent what MarshalCBOR returned, idResult
\* what UnmarshalCBOR made of it.
InitHeader ==
    /\ idChild \in [Protected : HeaderMaps(MaxEntries),
                    Unprotected : HeaderMaps(1)]
    /\ idParent = Encoded(<<>>, "pending")
    /\ idResult = "none"
    /\ idPc = "marshal"
    /\ DelegateIdle
    /\ CommandIdle
    /\ RestIdle

CallMarshalCBOR ==
    /\ idPc = "marshal"
    /\ idParent' = MarshalCBOR(idChild)
    /\ idPc' = IF MarshalCBOR(idChild).err = "nil" THEN "unmarshal" ELSE "done"
    /\ UNCHANGED <<idChild, idResult, besideIdentifier>>

CallUnmarshalCBOR ==
    /\ idPc = "unmarshal"
    /\ idResult' = UnmarshalCBOR(idParent.bytes)
    /\ idPc' = "done"
    /\ UNCHANGED <<idChild, idParent, besideIdentifier>>

NextHeader ==
    \/ CallMarshalCBOR
    \/ CallUnmarshalCBOR

SpecHeader == InitHeader /\ [][NextHeader]_vars

----------------------------------------------------------------------------
(* The delegate specification: a chain is built leaf first, one            *)
(* certificate at a time, and then handed to VerifyDelegateChain.          *)
(*                                                                         *)
(* Each run varies one family of certificate attributes over its whole     *)
(* range and generates the others the way TestDelegateIdentChains does:    *)
(*   "ident"  the identifiers and constraints, and the named owner;        *)
(*   "perm"   the permissions, and the function OID checked;               *)
(*   "sig"    the signing keys and issuer names, and the owner key;        *)
(*   "usage"  key usage and basic constraints, of certificates that were   *)
(*            not made by GenerateDelegate.                                *)

Facets == {"ident", "perm", "sig", "usage"}

\* Identifier strings (the test suite's, shortened: DNS:*.dom is *.d).
S_dom == <<"*", ".", "d">>
S_sub == <<"*", ".", "s", ".", "d">>
S_srv == <<"v", ".", "s", ".", "d">>
S_bad == <<"*", ".", "b">>
S_two == <<"*", ".", "d", ",", " ", "*", ".", "b">>
S_any == <<"*">>

Idents == {<<>>, S_dom, S_sub, S_srv, S_bad, S_two, S_any}

NamedOwners == {S_dom, S_sub, S_bad}

\* Keys that sign certificates, and subject names.
SigningKeys == {"kA", "kB", "kEd"}
Names == {"nA", "nB"}

\* The key and the name of the certificate at position p (0 is the leaf)
\* of a chain in which each certificate is issued by the next.
KeyAt(p) == IF p % 2 = 0 THEN "kA" ELSE "kB"
NameAt(p) == IF p % 2 = 0 THEN "nA" ELSE "nB"

\* The identifier at position p of a chain in which each one is permitted
\* by the next.
IdentAt(p) == IF p = 0 THEN S_srv ELSE IF p = 1 THEN S_sub ELSE IF p = 2 THEN S_dom ELSE S_any

\* The flags a caller passes for position p; a first certificate may also
\* be generated as a CA.
FlagsAt(p) ==
    IF p = 0 THEN {DelegateFlagLeaf, DelegateFlagIntermediate}
    ELSE {DelegateFlagIntermediate, DelegateFlagRoot}

InitDelegate ==
    /\ chain = <<>>
    /\ vary \in Facets
    /\ ownerKey = Nil
    /\ oid = Nil
    /\ namedOwner = Nil
    /\ err = "pending"
    /\ gotIdentifier = [called |-> FALSE, of |-> 0, id |-> Nil, err |-> "nil"]
    /\ IdentifierIdle
    /\ CommandIdle
    /\ RestIdle

\* A caller extends the chain with a certificate made by GenerateDelegate.
AppendGenerated ==
    /\ err = "pending"
    /\ vary \in {"ident", "perm", "sig"}
    /\ Len(chain) < MaxChain
    /\ LET p == Len(chain)
       IN  \E flags \in FlagsAt(p),
              key \in (IF vary = "sig" THEN SigningKeys ELSE {KeyAt(p + 1)}),
              issuer \in (IF vary = "sig" THEN Names ELSE {NameAt(p + 1)}),
              permissions \in (IF vary = "perm"
                               THEN {<<>>, <<OID_delegateOnboard>>,
                                     <<OID_delegateOnboard, OID_delegateRedirect>>}
                               ELSE {<<OID_delegateOnboard>>}),
              ident \in (IF vary = "ident" THEN Idents ELSE {IdentAt(p)}) :
                /\ (vary # "ident" => flags # DelegateFlagIntermediate \/ p # 0)
                /\ chain' = Append(chain,
                       GenerateDelegate(key, flags, KeyAt(p), NameAt(p), issuer,
                                        permissions, ident))
    /\ UNCHANGED <<vary, ownerKey, oid, namedOwner, err, gotIdentifier,
                   besideDelegate>>

\* The chain is extended with a certificate from elsewhere: one with the
\* names, keys and extensions GenerateDelegate would give it, and any key
\* usage and basic constraints.
AppendParsed ==
    /\ err = "pending"
    /\ vary = "usage"
    /\ Len(chain) < MaxChain
    /\ LET p == Len(chain)
           flags == IF p = 0 THEN DelegateFlagLeaf ELSE DelegateFlagIntermediate
           made == GenerateDelegate(KeyAt(p + 1), flags, KeyAt(p), NameAt(p),
                                    NameAt(p + 1), <<OID_delegateOnboard>>,
                                    IdentAt(p))
       IN  \E valid \in BOOLEAN, isCA \in BOOLEAN,
              usage \in SUBSET {"DigitalSignature", "CertSign"} :
                chain' = Append(chain,
                    [made EXCEPT !.BasicConstraintsValid = valid,
                                 !.IsCA = isCA,
                                 !.KeyUsage = usage])
    /\ UNCHANGED <<vary, ownerKey, oid, namedOwner, err, gotIdentifier,
                   besideDelegate>>

\* VerifyDelegateChain(chain, ownerKey, oid, namedOwner) is called.
CallVerifyDelegateChain ==
    /\ err = "pending"
    /\ \E key \in (IF vary = "sig" THEN {Nil} \cup {Ptr(k) : k \in SigningKeys}
                   ELSE {Nil, Ptr(KeyAt(Len(chain)))}),
          o \in (IF vary = "perm"
                 THEN {Nil, Ptr(OID_delegateOnboard), Ptr(OID_delegateRedirect)}
                 ELSE {Nil, Ptr(OID_delegateOnboard)}),
          owner \in (IF vary = "ident" THEN {Nil} \cup {Ptr(n) : n \in NamedOwners}
                     ELSE {Nil}) :
            /\ ownerKey' = key
            /\ oid' = o
            /\ namedOwner' = owner
            /\ err' = VerifyDelegateChain(chain, key, o, owner)
    /\ UNCHANGED <<chain, vary, gotIdentifier, besideDelegate>>

\* GetIdentifier(chain) is called, once.
CallGetIdentifier ==
    /\ ~gotIdentifier.called
    /\ gotIdentifier' = [called |-> TRUE, of |-> Len(chain),
                         id |-> GetIdentifier(chain).id,
                         err |-> GetIdentifier(chain).err]
    /\ UNCHANGED <<chain, vary, ownerKey, oid, namedOwner, err, besideDelegate>>

NextDelegate ==
    \/ AppendGenerated
    \/ AppendParsed
    \/ CallVerifyDelegateChain
    \/ CallGetIdentifier

SpecDelegate == InitDelegate /\ [][NextDelegate]_vars

----------------------------------------------------------------------------
(* The delegate command (examples/cmd/delegate.go): create builds a chain  *)
(* for a list of key types and stores it, print reads it back and hands it *)
(* to VerifyDelegateChain.                                                 *)

\* Most key types given to delegate create.
MaxKeyTypes == 3

\* Key type names ParseKeyType knows, and one it does not.
KeyTypeNames == {"SECP256R1", "SECP384R1", "RSA2048RESTR", "RSAPKCS", "RSAPSS"}
KeyTypeArgs == KeyTypeNames \cup {"bogus"}

\* state.OwnerKey(keyType): the owner keys the server stores
\* (server.go 196-220), none for RSA2048RESTR.
OwnerKey(kt) ==
    IF kt = "SECP256R1" THEN Ptr("kOwnerEc256")
    ELSE IF kt = "SECP384R1" THEN Ptr("kOwnerEc384")
    ELSE IF kt \in {"RSAPKCS", "RSAPSS"} THEN Ptr("kOwnerRsa")
    ELSE Nil

\* The key generated in round i of create (107-120): a new one each round,
\* none for RSAPSS, whose case has no statement.
NewKeys == <<"kNew1", "kNew2", "kNew3", "kNew4", "kNew5">>
priv(ks, i) == IF ks[i] = "RSAPSS" THEN Nil ELSE Ptr(NewKeys[i])

\* The name "<name>_<kt>_<i>" of the certificate of round i (128), and
\* "<name>_<ownerKeyType>_Owner" (100) as round 0.
subjectName(ks, i) ==
    IF i = 0 THEN <<ks[1], "Owner">> ELSE <<ks[i], ToString(i - 1)>>

\* The certificate of round i of n (127-137), signed by the key of the
\* round before and issued in its name; the first round is signed by the
\* owner key.  Rounds count from 1 here, from 0 in the code.
roundCert(ks, i) ==
    LET n == Len(ks)
        lastPriv == IF i = 1 THEN OwnerKey(ks[1]) ELSE priv(ks, i - 1)
        flags == IF i = 1 THEN DelegateFlagRoot
                 ELSE IF i = n THEN DelegateFlagLeaf
                 ELSE DelegateFlagIntermediate
    IN  GenerateDelegate(Deref(lastPriv), flags, Deref(priv(ks, i)),
                         subjectName(ks, i), subjectName(ks, i - 1),
                         <<>>, <<>>)

\* The chain create appends to (99, 145): round 1 first.
createdChain(ks) == [i \in 1..Len(ks) |-> roundCert(ks, i)]

\* The result of createDelegateCertificate (80-154) for the key types ks:
\* the first round that fails decides.
createResult(ks) ==
    IF Len(ks) < 1 THEN "Requires name and ownerKeyType"
    ELSE IF ks[1] \notin KeyTypeNames THEN "Invalid key type"
    ELSE IF OwnerKey(ks[1]) = Nil THEN "Owner Key does not exist"
    ELSE LET bad == {i \in 1..Len(ks) :
                         ks[i] \notin KeyTypeNames \/ priv(ks, i) = Nil}
         IN  IF bad = {} THEN "nil"
             ELSE LET first == CHOOSE i \in bad : \A j \in bad : i <= j
                  IN  IF ks[first] \notin KeyTypeNames THEN "Invalid key type"
                      ELSE "panic: nil pointer dereference"

CommandReady ==
    /\ args \in UNION {[1..n -> KeyTypeArgs] : n \in 0..MaxKeyTypes}
    /\ delegateKeys = Nil
    /\ createErr = "pending"
    /\ printArg = Nil
    /\ printErr = "pending"

InitCommand ==
    /\ CommandReady
    /\ IdentifierIdle
    /\ DelegateIdle
    /\ RestIdle

\* delegate create <name> <key types>: the chain and the last key
\* generated are stored when every round succeeded (150).
CreateDelegateCertificate ==
    /\ createErr = "pending"
    /\ createErr' = createResult(args)
    /\ delegateKeys' = IF createResult(args) = "nil"
                      THEN Ptr([key |-> Deref(priv(args, Len(args))),
                                chain |-> createdChain(args)])
                      ELSE delegateKeys
    /\ UNCHANGED <<args, printArg, printErr, besideCommand>>

\* delegate print <name> [owner key type] (157-185).
DoPrintDelegateChain ==
    /\ printErr = "pending"
    /\ \E kt \in {Nil} \cup {Ptr(k) : k \in KeyTypeArgs} :
          /\ printArg' = kt
          /\ printErr' =
               IF kt # Nil /\ Deref(kt) \notin KeyTypeNames
               THEN "Invalid owner key type"
               ELSE IF kt # Nil /\ OwnerKey(Deref(kt)) = Nil
               THEN "Owner Key does not exist"
               ELSE IF delegateKeys = Nil THEN "not found"
               ELSE VerifyDelegateChain(Deref(delegateKeys).chain,
                        IF kt = Nil THEN Nil ELSE OwnerKey(Deref(kt)),
                        Nil, Nil)
    /\ UNCHANGED <<args, delegateKeys, createErr, besideCommand>>

NextCommand ==
    \/ CreateDelegateCertificate
    \/ DoPrintDelegateChain

SpecCommand == InitCommand /\ [][NextCommand]_vars

----------------------------------------------------------------------------
(* The client (examples/cmd/client.go, and the earlier source in           *)
(* unnamed/part_004): transferOwnership tries TO1 and TO2, client stores   *)
(* the credential it returns.  Each TO1 and TO2 exchange is a step, its    *)
(* outcome chosen by the network.                                          *)

\* Most TO1 targets (rendezvous directives) of a credential.
MaxTargets == 3

\* client.go: what BaseHTTP makes of the directives, n TO1 addresses and
\* the TO2 addresses of bypass directives.
BaseHTTPResults ==
    {[to1URLs |-> [k \in 1..n |-> "rv"], to2URLs |-> b] :
        n \in 0..MaxTargets, b \in {<<>>, <<"oBypass">>}}

\* client.go: the address lists of a TO1 response; "none" is an entry with
\* neither DNS nor IP address, or with an unknown transport.
To1dPayloads == {<<>>, <<"oA">>, <<"none", "oA">>, <<"oA", "oB">>}

\* part_004: the directives, by what they hold (the HTTP protocol, a DNS
\* name, an IP address), and the address lists TO1 returns.
Directives ==
    {[http |-> TRUE, dns |-> TRUE, ip |-> FALSE],
     [http |-> TRUE, dns |-> FALSE, ip |-> TRUE],
     [http |-> TRUE, dns |-> TRUE, ip |-> TRUE],
     [http |-> FALSE, dns |-> TRUE, ip |-> TRUE],
     [http |-> TRUE, dns |-> FALSE, ip |-> FALSE]}
To1Addrs == {<<>>, <<"oA">>, <<"oA", "oB">>}

\* The credential the blob holds before the client runs.
OldCredential == [owner |-> "manufacturer"]

InitClient ==
    /\ build \in {"client.go", "part_004"}
    /\ rvOnly \in BOOLEAN
    /\ rvInfo \in IF build = "client.go" THEN BaseHTTPResults
                  ELSE UNION {[1..n -> Directives] : n \in 0..MaxTargets}
    /\ clPc = "to1"
    /\ clI = 1
    /\ to1d = Nil
    /\ to2URLs = <<>>
    /\ clJ = 1
    /\ attempts = <<>>
    /\ newDC = Nil
    /\ blob = OldCredential
    /\ clientErr = "pending"
    /\ IdentifierIdle
    /\ DelegateIdle
    /\ CommandIdle
    /\ PayloadIdle
    /\ FsimIdle

\* One attempt, as it is recorded.
Attempt(kind, pos, addr, ok, rv) ==
    [kind |-> kind, pos |-> pos, addr |-> addr, ok |-> ok, rv |-> rv]

\* client.go 258-268: TO1 at the next address; the first success ends the
\* loop.
TransferOwnership1 ==
    /\ build = "client.go"
    /\ clPc = "to1"
    /\ clI <= Len(rvInfo.to1URLs)
    /\ \E resp \in {Nil} \cup {Ptr(r) : r \in To1dPayloads} :
          /\ attempts' = Append(attempts,
                 Attempt("TO1", <<clI, 1>>, rvInfo.to1URLs[clI], resp # Nil,
                         IF resp = Nil THEN <<>> ELSE Deref(resp)))
          /\ to1d' = resp
          /\ clI' = IF resp = Nil THEN clI + 1 ELSE clI
          /\ clPc' = IF resp = Nil THEN "to1" ELSE "to2URLs"
    /\ UNCHANGED <<build, rvOnly, rvInfo, to2URLs, clJ, newDC, blob, clientErr,
                   besideClient>>

\* skipsTO2 for a client that goes on to TO2 with -rv-only too.
skipsTO2_Never(flag) == FALSE

\* The -rv-only test before TO2 (client.go 300, part_004 255).
skipsTO2(flag) == flag

\* client.go 269-297: the usable addresses of the TO1 response.
to1dURLs(d) == IF d = Nil THEN <<>> ELSE SelectSeq(Deref(d), LAMBDA a : a # "none")

\* client.go 269-303, after the TO1 loop: the TO2 addresses are those of
\* the bypass directives and then those of the TO1 response; with -rv-only
\* the response is printed and nil returned.
CollectTO2URLs ==
    /\ build = "client.go"
    /\ clPc = "to2URLs" \/ (clPc = "to1" /\ clI > Len(rvInfo.to1URLs))
    /\ to2URLs' = rvInfo.to2URLs \o to1dURLs(to1d)
    /\ clJ' = 1
    /\ IF skipsTO2(rvOnly)
       THEN IF to1d = Nil
            THEN /\ clPc' = "done"
                 /\ clientErr' = "panic: nil pointer dereference"
            ELSE /\ clPc' = "client"
                 /\ clientErr' = clientErr
       ELSE /\ clPc' = IF to2URLs' = <<>> THEN "client" ELSE "to2"
            /\ clientErr' = clientErr
    /\ UNCHANGED <<build, rvOnly, rvInfo, clI, to1d, attempts, newDC, blob,
                   besideClient>>

\* part_004 173-191, 220-223: a directive is passed over unless it names
\* the HTTP protocol and a DNS name or an IP address.
nextDirective(i) ==
    LET usable == {k \in i..Len(rvInfo) :
                       rvInfo[k].http /\ (rvInfo[k].dns \/ rvInfo[k].ip)}
    IN  IF usable = {} THEN Len(rvInfo) + 1
        ELSE CHOOSE k \in usable : \A m \in usable : k <= m

\* part_004 224-258: TO1 for a directive, at its DNS name and, when that
\* returned no address, at its IP address; an error, an empty answer and
\* -rv-only pass to the next directive.
TransferOwnership1Directive ==
    /\ build = "part_004"
    /\ clPc \in {"to1", "to1ip"}
    /\ LET k == IF clPc = "to1" THEN nextDirective(clI) ELSE clI
           byDNS == clPc = "to1" /\ rvInfo[k].dns
       IN  /\ k <= Len(rvInfo)
           /\ \E resp \in {Nil} \cup {Ptr(r) : r \in To1Addrs} :
                 LET addrs == IF resp = Nil THEN <<>> ELSE Deref(resp)
                     retry == resp # Nil /\ addrs = <<>> /\ byDNS /\ rvInfo[k].ip
                     try2 == addrs # <<>> /\ ~skipsTO2(rvOnly)
                 IN  /\ attempts' = Append(attempts,
                            Attempt("TO1", <<k, IF byDNS THEN 1 ELSE 2>>,
                                    IF byDNS THEN "dns" ELSE "ip",
                                    resp # Nil, addrs))
                     /\ clPc' = IF retry THEN "to1ip"
                                ELSE IF try2 THEN "to2" ELSE "to1"
                     /\ clI' = IF retry \/ try2 THEN k ELSE k + 1
                     /\ to2URLs' = addrs
                     /\ clJ' = 1
    /\ UNCHANGED <<build, rvOnly, rvInfo, to1d, newDC, blob, clientErr,
                   besideClient>>

\* foundNewDC for a loop that goes on after a successful TO2.
foundNewDC_Never(dc) == FALSE

\* client.go 308, part_004 263: transferOwnership2 returned a credential.
foundNewDC(dc) == dc # Nil

\* client.go 305-313, part_004 260-266: TO2 at the next address; a
\* credential is returned at once, after the last failure client.go returns
\* nil and part_004 passes to the next directive.
TransferOwnership2 ==
    /\ clPc = "to2"
    /\ clJ <= Len(to2URLs)
    /\ \E ok \in BOOLEAN :
          LET dc == IF ok THEN Ptr([owner |-> to2URLs[clJ]]) ELSE Nil
              last == clJ = Len(to2URLs)
          IN  /\ attempts' = Append(attempts,
                     Attempt("TO2",
                             <<IF build = "client.go" THEN 1 ELSE clI, clJ>>,
                             to2URLs[clJ], ok, <<>>))
              /\ IF foundNewDC(dc)
                 THEN /\ newDC' = dc
                      /\ clPc' = "client"
                      /\ UNCHANGED <<clI, clJ>>
                 ELSE /\ newDC' = newDC
                      /\ clJ' = clJ + 1
                      /\ clPc' = IF ~last THEN "to2"
                                 ELSE IF build = "client.go" THEN "client"
                                 ELSE "to1"
                      /\ clI' = IF last /\ build = "part_004"
                                THEN clI + 1 ELSE clI
    /\ UNCHANGED <<build, rvOnly, rvInfo, to1d, to2URLs, blob, clientErr,
                   besideClient>>

\* returnsEarly for a client that returns without error whatever happened.
returnsEarly_Always(b, flag) == TRUE

\* client.go 176-178: with -rv-only the client returns when
\* transferOwnership has; part_004 has no such test.
returnsEarly(b, flag) == b = "client.go" /\ flag

\* client (client.go 174-186, part_004 88-96) once transferOwnership has
\* returned: without a credential it fails, with one it saves the blob,
\* which replaces the file or fails and leaves it.
Client ==
    /\ \/ clPc = "client"
       \/ build = "part_004" /\ clPc = "to1" /\ nextDirective(clI) > Len(rvInfo)
    /\ clPc' = "done"
    /\ IF returnsEarly(build, rvOnly)
       THEN /\ clientErr' = "nil"
            /\ blob' = blob
       ELSE IF newDC = Nil
       THEN /\ clientErr' = "transfer of ownership not successful"
            /\ blob' = blob
       ELSE \E saved \in BOOLEAN :
               /\ clientErr' = IF saved THEN "nil" ELSE "error saving blob"
               /\ blob' = IF saved THEN Deref(newDC) ELSE blob
    /\ UNCHANGED <<build, rvOnly, rvInfo, clI, to1d, to2URLs, clJ, attempts,
                   newDC, besideClient>>

NextClient ==
    \/ TransferOwnership1
    \/ CollectTO2URLs
    \/ TransferOwnership1Directive
    \/ TransferOwnership2
    \/ Client

SpecClient == InitClient /\ [][NextClient]_vars

----------------------------------------------------------------------------
(* fdo.payload: the owner module (fsim/payload_owner.go) and the device    *)
(* module (unnamed/part_001).  The owner's ProduceInfo writes messages,    *)
(* the device's Receive takes them in order and answers, the owner's       *)
(* HandleInfo takes the answers in order.  A side whose call returned an   *)
(* error makes no further call: a failed turn ends the session.            *)
(*                                                                         *)
(* With peers = "both" the two modules talk to each other; with "owner"    *)
(* the owner is handed any device message, with "device" the device is     *)
(* handed any owner message, also after a call that returned an error.     *)

\* Most payloads of an owner, and most bytes of a payload.
MaxPayloads == 2
MaxData == 3

\* Most messages ProduceInfo has written that the device has not received:
\* what one message to the device holds.
MaxInFlight == 2

\* The sizes given to SetChunkSize; 0 is the size never set.
ChunkSizes == {0, 1, 2}

\* The payloads added by AddPayload: a MIME type the handler supports or
\* one it does not, and Data <<1, ..., n>>.
PayloadKinds ==
    {[MimeType |-> m, Data |-> [i \in 1..n |-> i]] :
        m \in {"supported", "unsupported"}, n \in 0..MaxData}

\* A message: its key, and of its body the MIME type and size of begin,
\* the number of ack or the code of error, the bytes of data, the boolean
\* of ready, and whether the body decodes.
Msg(key, mime, n, data, flag, valid) ==
    [key |-> key, mime |-> mime, n |-> n, data |-> data, flag |-> flag,
     valid |-> valid]

\* What a device can send, and what an owner can send.
DeviceMessages ==
    {Msg(k, "", 0, <<>>, TRUE, TRUE) : k \in {"active", "result", "other"}}
    \cup {Msg("ready", "", 0, <<>>, f, TRUE) : f \in BOOLEAN}
    \cup {Msg("ack", "", n, <<>>, TRUE, TRUE) : n \in 0..MaxData}
    \cup {Msg("error", "", c, <<>>, TRUE, TRUE) : c \in {1, 4, 6}}
OwnerMessages ==
    {Msg(k, "", 0, <<>>, TRUE, TRUE) : k \in {"active", "end", "other"}}
    \cup {Msg("begin", m, n, <<>>, TRUE, v) :
             m \in {"supported", "unsupported"}, n \in 0..MaxData,
             v \in BOOLEAN}
    \cup {Msg("data", "", 0, [i \in 1..n |-> i], TRUE, v) :
             n \in 0..2, v \in BOOLEAN}

\* nextChunk taking every chunk from the start of the data.
nextChunk_FromStart(data, sent, size) ==
    SubSeq(data, 1, IF size > Len(data) - sent THEN Len(data) - sent ELSE size)

\* payload_owner.go 141-149: the next chunk, of chunkSize bytes or what
\* remains.
nextChunk(data, sent, size) ==
    LET remaining == Len(data) - sent
        chunkLen == IF size > remaining THEN remaining ELSE size
    IN  SubSeq(data, sent + 1, sent + chunkLen)

\* blocksForAck for an owner that does not wait.
blocksForAck_Never(waiting) == FALSE

\* payload_owner.go 89: an acknowledgment is awaited.
blocksForAck(waiting) == waiting

\* payload_owner.go 143-149: with a negative chunk size chunkLen is negative
\* and never above what remains, so the slice Data[bytesSent :
\* bytesSent+chunkLen] ends before it starts, which is a run-time panic.
sliceFaults(size) == size < 0

\* PayloadOwner.produceInfo (87-185): the owner after the call, what it
\* wrote, and what it returned.
produceInfo(p) ==
    LET returns(owner, wrote, blockPeer, moduleDone) ==
            [owner |-> owner, wrote |-> wrote, blockPeer |-> blockPeer,
             moduleDone |-> moduleDone, err |-> "nil"]
    IN  IF blocksForAck(p.waitingForAck) THEN returns(p, <<>>, TRUE, FALSE)
        ELSE IF p.currentPayload = Nil
        THEN IF p.currentIndex >= Len(payloads)
             THEN returns(p, <<>>, FALSE, TRUE)
             ELSE LET cur == payloads[p.currentIndex + 1]
                  IN  returns([p EXCEPT !.currentPayload = Ptr(p.currentIndex),
                                        !.bytesSent = 0,
                                        !.chunkSize = IF @ = 0 THEN 4096 ELSE @],
                              <<Msg("begin", cur.MimeType, Len(cur.Data), <<>>,
                                    TRUE, TRUE)>>,
                              FALSE, FALSE)
        ELSE LET cur == payloads[Deref(p.currentPayload) + 1]
             IN  IF p.bytesSent < Len(cur.Data)
                 THEN IF sliceFaults(p.chunkSize)
                      THEN [owner |-> p, wrote |-> <<>>, blockPeer |-> FALSE,
                            moduleDone |-> FALSE,
                            err |-> "panic: slice bounds out of range"]
                      ELSE LET chunk == nextChunk(cur.Data, p.bytesSent,
                                                  p.chunkSize)
                           IN  returns([p EXCEPT !.bytesSent = @ + Len(chunk),
                                                 !.waitingForAck = TRUE],
                                       <<Msg("data", "", 0, chunk, TRUE, TRUE)>>,
                                       FALSE, FALSE)
                 ELSE returns(p, <<Msg("end", "", 0, <<>>, TRUE, TRUE)>>,
                              FALSE, FALSE)

\* ackMismatch for an owner that accepts any acknowledgment.
ackMismatch_Never(bytesReceived, bytesSent) == FALSE

\* payload_owner.go 225: the device received another number of bytes than
\* was sent.
ackMismatch(bytesReceived, bytesSent) == bytesReceived # bytesSent

\* afterError for an owner that keeps the payload at an error.
afterError_KeepsPayload(p, code) == [p EXCEPT !.lastError = Ptr(code)]

\* payload_owner.go 272-285: the error is kept and the payload dropped.
afterError(p, code) ==
    [p EXCEPT !.lastError = Ptr(code), !.currentPayload = Nil, !.bytesSent = 0]

\* PayloadOwner.receive (188-294): the owner after the message, and the
\* error returned.  A result with no payload at hand reads through a nil
\* pointer (242).
ownerReceive(p, m) ==
    IF m.key = "ready"
    THEN [owner |-> p,
          err |-> IF ~m.flag THEN "device not ready for payload" ELSE "nil"]
    ELSE IF m.key = "ack"
    THEN [owner |-> [p EXCEPT !.waitingForAck = FALSE],
          err |-> IF ackMismatch(m.n, p.bytesSent) THEN "ack mismatch"
                  ELSE "nil"]
    ELSE IF m.key = "result"
    THEN IF p.currentPayload = Nil
         THEN [owner |-> p, err |-> "panic: nil pointer dereference"]
         ELSE [owner |-> [p EXCEPT !.currentPayload = Nil,
                                   !.currentIndex = @ + 1,
                                   !.bytesSent = 0],
               err |-> "nil"]
    ELSE IF m.key = "error"
    THEN [owner |-> afterError(p, m.n), err |-> "payload error"]
    ELSE [owner |-> p, err |-> "nil"]

\* PayloadOwner.reset (78-84).
ownerReset(p) ==
    [p EXCEPT !.currentPayload = Nil, !.currentIndex = 0, !.bytesSent = 0,
              !.waitingForAck = FALSE, !.lastError = Nil]

\* deviceReset for a device that keeps its transfer.
deviceReset_Keeps(d) == [device |-> d, called |-> <<>>]

\* sizeMismatch for a device that does not compare the size.
sizeMismatch_Never(expectedSize, totalBytes) == FALSE

\* part_001 177: a size was declared and another number of bytes received.
sizeMismatch(expectedSize, totalBytes) ==
    expectedSize > 0 /\ totalBytes # expectedSize

\* Payload.receive (90-213) for message m, the handler method it calls
\* succeeding or not (ok): the device and the handler after it, the answer
\* written, whether an error was returned, and the handler methods called.
deviceReceive(d, h, m, ok) ==
    LET done(d2, h2, reply, called) ==
            [device |-> d2, handler |-> h2, reply |-> <<reply>>, err |-> FALSE,
             called |-> called]
        sendError(code, d2, h2, called) ==
            [device |-> d2, handler |-> h2,
             reply |-> <<Msg("error", "", code, <<>>, TRUE, TRUE)>>,
             err |-> TRUE, called |-> called]
    IN  IF m.key = "active"
        THEN done(d, h, Msg("active", "", 0, <<>>, d.Active, TRUE), <<>>)
        ELSE IF m.key = "begin"
        THEN IF ~d.Handler THEN sendError(4, d, h, <<>>)
             ELSE IF ~m.valid THEN sendError(2, d, h, <<>>)
             ELSE IF m.mime # "supported"
             THEN sendError(1, d, h, <<"SupportsMimeType">>)
             ELSE IF ~ok
             THEN sendError(4, d, h, <<"SupportsMimeType", "BeginPayload">>)
             ELSE done([d EXCEPT !.receiving = TRUE, !.totalBytes = 0,
                                 !.expectedSize = m.n],
                       [received |-> <<>>],
                       Msg("ready", "", 0, <<>>, TRUE, TRUE),
                       <<"SupportsMimeType", "BeginPayload">>)
        ELSE IF m.key = "data"
        THEN IF ~d.receiving THEN sendError(6, d, h, <<>>)
             ELSE IF ~m.valid THEN sendError(6, d, h, <<>>)
             ELSE IF ~ok
             THEN sendError(4, [d EXCEPT !.receiving = FALSE],
                            [received |-> h.received \o m.data],
                            <<"ReceiveChunk">>)
             ELSE done([d EXCEPT !.totalBytes = @ + Len(m.data)],
                       [received |-> h.received \o m.data],
                       Msg("ack", "", d.totalBytes + Len(m.data), <<>>, TRUE,
                           TRUE),
                       <<"ReceiveChunk">>)
        ELSE IF m.key = "end"
        THEN IF ~d.receiving THEN sendError(6, d, h, <<>>)
             ELSE IF sizeMismatch(d.expectedSize, d.totalBytes)
             THEN sendError(6, [d EXCEPT !.receiving = FALSE], h, <<>>)
             ELSE IF ~ok
             THEN sendError(4, [d EXCEPT !.receiving = FALSE], h,
                            <<"EndPayload">>)
             ELSE done([d EXCEPT !.receiving = FALSE], h,
                       Msg("result", "", 0, <<>>, TRUE, TRUE), <<"EndPayload">>)
        ELSE [device |-> d, handler |-> h, reply |-> <<>>, err |-> FALSE,
              called |-> <<>>]

\* Payload.reset (79-87): the device after it, and the handler method
\* called.
deviceReset(d) ==
    [device |-> [d EXCEPT !.receiving = FALSE, !.totalBytes = 0,
                          !.expectedSize = 0],
     called |-> IF d.receiving /\ d.Handler THEN <<"CancelPayload">> ELSE <<>>]

\* A module call as it is remembered: the method, the message it was given
\* and its key, what it wrote and returned, the handler methods it called
\* and the device as it was before.
Call(method, given, wrote, blockPeer, moduleDone, error, called, before) ==
    [method |-> method, given |-> given,
     key |-> IF given = <<>> THEN "" ELSE given[1].key,
     wrote |-> wrote, blockPeer |-> blockPeer,
     moduleDone |-> moduleDone, err |-> error, called |-> called,
     before |-> before]

\* Whether the handler holds a transfer that was begun and neither ended nor
\* cancelled ("yes"; "twice" when it was begun over one still held), after
\* the handler methods of one module call; began tells whether BeginPayload
\* returned without error.
RECURSIVE openAfter(_, _, _)
openAfter(open, called, began) ==
    IF called = <<>> THEN open
    ELSE openAfter(
             IF Head(called) = "BeginPayload" /\ began
             THEN (IF open = "no" THEN "yes" ELSE "twice")
             ELSE IF Head(called) \in {"EndPayload", "CancelPayload"} THEN "no"
             ELSE open,
             Tail(called), began)

InitPayload ==
    /\ peers \in {"both", "owner", "device"}
    /\ payloads \in IF peers = "device" THEN {<<>>}
                    ELSE UNION {[1..n -> PayloadKinds] : n \in 0..MaxPayloads}
    /\ \E size \in (IF peers = "device" THEN {0} ELSE ChunkSizes) :
          ownerP = [currentPayload |-> Nil, currentIndex |-> 0, bytesSent |-> 0,
                    chunkSize |-> size, waitingForAck |-> FALSE,
                    lastError |-> Nil]
    /\ \E set \in (IF peers = "device" THEN BOOLEAN ELSE {TRUE}) :
          deviceP = [Handler |-> set, Active |-> TRUE, receiving |-> FALSE,
                     totalBytes |-> 0, expectedSize |-> 0]
    /\ handler = [received |-> <<>>]
    /\ toDevice = <<>>
    /\ toOwner = <<>>
    /\ plOver = {}
    /\ plLast = Call("none", <<>>, <<>>, FALSE, FALSE, "nil", <<>>, deviceP)
    /\ plHist = [sentChunks |-> <<>>, readyHandled |-> FALSE, unacked |-> 0,
                 errored |-> FALSE, refused |-> FALSE, dones |-> 0,
                 results |-> 0, open |-> "no"]
    /\ IdentifierIdle
    /\ DelegateIdle
    /\ CommandIdle
    /\ ClientIdle
    /\ FsimIdle

\* PayloadOwner.ProduceInfo (55-57).  The chunks remembered of one payload
\* are bounded: chunks of no byte could be written without end.
ProduceInfo ==
    /\ peers \in {"both", "owner"}
    /\ "owner" \notin plOver
    /\ Len(toDevice) < MaxInFlight
    /\ Len(plHist.sentChunks) <= MaxData + 1
    /\ LET r == produceInfo(ownerP)
           key == IF r.wrote = <<>> THEN "" ELSE r.wrote[1].key
       IN  /\ ownerP' = r.owner
           /\ toDevice' = IF peers = "both" THEN toDevice \o r.wrote
                          ELSE toDevice
           /\ plOver' = IF r.err # "nil" THEN plOver \cup {"owner"}
                        ELSE plOver
           /\ plLast' = Call("ProduceInfo", <<>>, r.wrote, r.blockPeer,
                             r.moduleDone, r.err, <<>>, deviceP)
           /\ plHist' =
                IF key = "begin"
                THEN [plHist EXCEPT !.sentChunks = <<>>, !.readyHandled = FALSE]
                ELSE IF key = "data"
                THEN [plHist EXCEPT
                         !.sentChunks = Append(@, r.wrote[1].data),
                         !.unacked = IF @ < 2 THEN @ + 1 ELSE @]
                ELSE IF r.moduleDone
                THEN [plHist EXCEPT !.dones = IF @ < 2 THEN @ + 1 ELSE @]
                ELSE plHist
    /\ UNCHANGED <<peers, payloads, deviceP, handler, toOwner, besidePayload>>

\* PayloadOwner.HandleInfo (49-52) for the next message of the device.
HandleInfo ==
    /\ peers \in {"both", "owner"}
    /\ "owner" \notin plOver
    /\ \E m \in (IF peers = "owner" THEN DeviceMessages
                 ELSE IF toOwner = <<>> THEN {} ELSE {Head(toOwner)}) :
          LET r == ownerReceive(ownerP, m)
          IN  /\ ownerP' = r.owner
              /\ toOwner' = IF peers = "both" THEN Tail(toOwner) ELSE toOwner
              /\ plOver' = IF r.err # "nil" THEN plOver \cup {"owner"}
                           ELSE plOver
              /\ plLast' = Call("HandleInfo", <<m>>, <<>>, FALSE, FALSE, r.err,
                                <<>>, deviceP)
              /\ plHist' =
                   IF m.key = "ready" /\ m.flag
                   THEN [plHist EXCEPT !.readyHandled = TRUE]
                   ELSE IF m.key = "ack" THEN [plHist EXCEPT !.unacked = 0]
                   ELSE IF m.key = "error" THEN [plHist EXCEPT !.errored = TRUE]
                   ELSE IF m.key = "result" /\ r.err = "nil"
                   THEN [plHist EXCEPT !.results = @ + 1]
                   ELSE plHist
    /\ UNCHANGED <<peers, payloads, deviceP, handler, toDevice, besidePayload>>

\* Payload.Receive (65-71) for the next message of the owner: receive, and
\* reset when it returned an error; oks tells whether the handler's methods
\* may fail (FALSE) or succeed (TRUE).
ReceiveWith(oks) ==
    /\ peers \in {"both", "device"}
    /\ peers = "both" => "device" \notin plOver
    /\ \E m \in (IF peers = "device"
                 THEN {om \in OwnerMessages :
                          deviceP.totalBytes + Len(om.data) <= MaxData + 1}
                 ELSE IF toDevice = <<>> THEN {} ELSE {Head(toDevice)}),
          ok \in oks :
          LET r == deviceReceive(deviceP, handler, m, ok)
              z == deviceReset(r.device)
          IN  /\ deviceP' = IF r.err THEN z.device ELSE r.device
              /\ handler' = r.handler
              /\ toDevice' = IF peers = "both" THEN Tail(toDevice) ELSE toDevice
              /\ toOwner' = IF peers = "both" THEN toOwner \o r.reply
                            ELSE toOwner
              /\ plOver' = IF r.err THEN plOver \cup {"device"} ELSE plOver
              /\ plLast' = Call("Receive", <<m>>, r.reply, FALSE, FALSE,
                                IF r.err THEN "payload error" ELSE "nil",
                                IF r.err THEN r.called \o z.called ELSE r.called,
                                deviceP)
              /\ plHist' =
                   [plHist EXCEPT
                      !.refused =
                         IF m.key = "begin" /\ r.reply[1].key = "ready"
                         THEN FALSE
                         ELSE IF m.key = "begin" /\ r.reply[1].n = 1 THEN TRUE
                         ELSE @,
                      !.open =
                         openAfter(@, IF r.err THEN r.called \o z.called
                                      ELSE r.called,
                                   ~r.err)]
    /\ UNCHANGED <<peers, payloads, ownerP, besidePayload>>

Receive == ReceiveWith(BOOLEAN)

\* Transition(false) (payload_owner.go 70-75, part_001 57-62) of a module
\* that has ended.
Transition ==
    /\ \E side \in plOver :
          /\ side = "owner" => ownerP # ownerReset(ownerP)
          /\ side = "device" => deviceP # deviceReset(deviceP).device
          /\ ownerP' = IF side = "owner" THEN ownerReset(ownerP) ELSE ownerP
          /\ deviceP' = IF side = "device" THEN deviceReset(deviceP).device
                        ELSE deviceP
          /\ plLast' = Call("Transition", <<>>, <<>>, FALSE, FALSE, "nil",
                            IF side = "device" THEN deviceReset(deviceP).called
                            ELSE <<>>,
                            deviceP)
          /\ plHist' =
               [plHist EXCEPT
                  !.open = IF side = "device"
                           THEN openAfter(@, deviceReset(deviceP).called, FALSE)
                           ELSE @]
    /\ UNCHANGED <<peers, payloads, handler, toDevice, toOwner, plOver,
                   besidePayload>>

NextPayload ==
    \/ ProduceInfo
    \/ HandleInfo
    \/ Receive
    \/ Transition

SpecPayload == InitPayload /\ [][NextPayload]_vars

----------------------------------------------------------------------------
(* The transfer specification: the PayloadOwner with a device whose        *)
(* handler supports every payload and never fails, for every chunk size    *)
(* SetChunkSize can be given, before or during the transfer.               *)

\* The chunk sizes given to SetChunkSize: those above, and a negative one.
TransferChunkSizes == ChunkSizes \cup {-1}

InitTransfer ==
    /\ peers = "both"
    /\ payloads \in UNION {[1..n -> {k \in PayloadKinds :
                                         k.MimeType = "supported"}] :
                               n \in 0..MaxPayloads}
    /\ \E size \in TransferChunkSizes :
          ownerP = [currentPayload |-> Nil, currentIndex |-> 0, bytesSent |-> 0,
                    chunkSize |-> size, waitingForAck |-> FALSE,
                    lastError |-> Nil]
    /\ deviceP = [Handler |-> TRUE, Active |-> TRUE, receiving |-> FALSE,
                  totalBytes |-> 0, expectedSize |-> 0]
    /\ handler = [received |-> <<>>]
    /\ toDevice = <<>>
    /\ toOwner = <<>>
    /\ plOver = {}
    /\ plLast = Call("none", <<>>, <<>>, FALSE, FALSE, "nil", <<>>, deviceP)
    /\ plHist = [sentChunks |-> <<>>, readyHandled |-> FALSE, unacked |-> 0,
                 errored |-> FALSE, refused |-> FALSE, dones |-> 0,
                 results |-> 0, open |-> "no"]
    /\ IdentifierIdle
    /\ DelegateIdle
    /\ CommandIdle
    /\ ClientIdle
    /\ FsimIdle

\* PayloadOwner.SetChunkSize (301-304), at any time.
SetChunkSize ==
    /\ "owner" \notin plOver
    /\ \E size \in TransferChunkSizes \ {ownerP.chunkSize} :
          ownerP' = [ownerP EXCEPT !.chunkSize = size]
    /\ plLast' = Call("SetChunkSize", <<>>, <<>>, FALSE, FALSE, "nil", <<>>,
                      deviceP)
    /\ UNCHANGED <<peers, payloads, deviceP, handler, toDevice, toOwner, plOver,
                   plHist, besidePayload>>

\* Receive of a device whose handler never fails.
ReceiveAccepting == ReceiveWith({TRUE})

NextTransfer ==
    \/ SetChunkSize
    \/ ProduceInfo
    \/ HandleInfo
    \/ ReceiveAccepting

SpecTransfer == InitTransfer /\ [][NextTransfer]_vars

----------------------------------------------------------------------------
(* fdo.ssh (fsim/ssh_owner.go 1-175, fsim/ssh_device.go) and BKGcred       *)
(* (fsim/ssh_owner.go 644-740, fsim/bkgcred_device.go).  Each module is    *)
(* called by itself: an owner module is handed any message a device can    *)
(* send and makes no further call once a call returned an error; a device  *)
(* module is handed any message an owner can send while it is active,      *)
(* also after a call that returned an error.                               *)

\* Most entries of AuthorizedKeys.
MaxKeys == 2

\* Most Receive and Yield calls made on the BKGcred device between two
\* Transition calls.
MaxYields == 3

\* The lists AuthorizedKeys can hold.
KeyLists == UNION {[1..n -> {"keyA", "keyB"}] : n \in 0..MaxKeys}

\* What a device sends to SSHOwner, and what an owner sends to SSH.
SSHDeviceMessages ==
    {Msg("active", "", 0, <<>>, f, v) : f, v \in BOOLEAN}
    \cup {Msg("host-keys", "", 0, d, TRUE, v) :
             d \in {<<>>, <<"hostA">>}, v \in BOOLEAN}
    \cup {Msg("error", "", n, <<>>, TRUE, v) : n \in {1, 5}, v \in BOOLEAN}
    \cup {Msg("other", "", 0, <<>>, TRUE, TRUE)}
SSHOwnerMessages ==
    {Msg("add-key", "", 0, <<k>>, TRUE, v) :
        k \in {"keyA", "keyB"}, v \in BOOLEAN}
    \cup {Msg("error", "", n, <<>>, TRUE, v) : n \in {1, 5}, v \in BOOLEAN}
    \cup {Msg("other", "", 0, <<>>, TRUE, TRUE)}

\* nextKeyIndex for an owner that stays at the same entry.
nextKeyIndex_Stays(keyIndex) == keyIndex

\* ssh_owner.go 113: s.keyIndex++.
nextKeyIndex(keyIndex) == keyIndex + 1

\* SSHOwner.ProduceInfo (79-134), the producer taking the chunk or not
\* (ok): the owner after the call, what it wrote and returned.
sshProduceInfo(o, ok) ==
    LET ret(o2, wrote, done, error) ==
            [owner |-> o2, wrote |-> wrote, blockPeer |-> FALSE,
             moduleDone |-> done, err |-> error]
    IN  IF o.pendingResponse # Nil
        THEN LET pr == Deref(o.pendingResponse)
             IN  IF pr.errorCode # Nil
                 THEN IF ~ok THEN ret(o, <<>>, FALSE, "error sending")
                      ELSE ret([o EXCEPT !.pendingResponse = Nil],
                               <<Msg("error", "", Deref(pr.errorCode), <<>>,
                                     TRUE, TRUE)>>,
                               TRUE, "nil")
                 ELSE IF ~ok THEN ret(o, <<>>, FALSE, "error sending")
                      ELSE ret([o EXCEPT !.pendingResponse = Nil],
                               <<Msg(pr.messageType, "", 0, pr.data, TRUE,
                                     TRUE)>>,
                               FALSE, "nil")
        ELSE IF o.keyIndex < Len(o.AuthorizedKeys)
        THEN LET keyInstall == o.AuthorizedKeys[o.keyIndex + 1]
                 o2 == [o EXCEPT !.keyIndex = nextKeyIndex(@)]
             IN  IF ~ok THEN ret(o2, <<>>, FALSE, "error sending add-key")
                 ELSE ret(o2,
                          <<Msg("add-key", "", 0, <<keyInstall>>, TRUE, TRUE)>>,
                          FALSE, "nil")
        ELSE ret(o, <<>>, TRUE, "nil")

\* SSHOwner.HandleInfo (51-76) and handleHostKeys (136-160), the OnHostKeys
\* callback being nil, succeeding or failing (cb): the error returned.
sshHandleInfo(m, cb) ==
    IF m.key = "active"
    THEN IF ~m.valid THEN "error decoding active message"
         ELSE IF ~m.flag THEN "device SSH module is not active"
         ELSE "nil"
    ELSE IF m.key = "host-keys"
    THEN IF ~m.valid THEN "error decoding host-keys"
         ELSE IF m.data = <<>> THEN "device sent empty host keys list"
         ELSE IF cb = "fails" THEN "error handling host keys"
         ELSE "nil"
    ELSE IF m.key = "error"
    THEN IF ~m.valid THEN "error decoding error code"
         ELSE "device reported SSH error"
    ELSE "unknown message"

\* SSH.reset (170-173).
sshReset(d) == [d EXCEPT !.hostKeysSent = FALSE, !.pendingError = Nil]

\* sshReceiveAddKey for a module that leaves the host keys to be sent again
\* after every key.
sshReceiveAddKey_Resets(d, m, cb) ==
    [device |-> sshReset(d), err |-> "nil", wrote |-> <<>>,
     called |-> <<"InstallAuthorizedKey">>]

\* SSH.receiveAddKey (114-141), the callback succeeding or failing (cb).
sshReceiveAddKey(d, m, cb) ==
    IF ~m.valid
    THEN [device |-> d, err |-> "error decoding add-key", wrote |-> <<>>,
          called |-> <<>>]
    ELSE IF d.InstallAuthorizedKey = "nil"
    THEN [device |-> d,
          err |-> "InstallAuthorizedKey callback is required but not provided",
          wrote |-> <<>>, called |-> <<>>]
    ELSE IF cb = "fails"
    THEN [device |-> d, err |-> "error installing authorized key",
          wrote |-> <<>>, called |-> <<"InstallAuthorizedKey">>]
    ELSE [device |-> d, err |-> "nil", wrote |-> <<>>,
          called |-> <<"InstallAuthorizedKey">>]

\* SSH.receive (77-93).
sshReceive(d, m, cb) ==
    IF m.key = "add-key" THEN sshReceiveAddKey(d, m, cb)
    ELSE IF m.key = "error"
    THEN IF ~m.valid
         THEN [device |-> d, err |-> "error decoding error code",
               wrote |-> <<>>, called |-> <<>>]
         ELSE [device |-> [d EXCEPT !.pendingError = Ptr(m.n)],
               err |-> "SSH operation failed", wrote |-> <<>>, called |-> <<>>]
    ELSE [device |-> d, err |-> "unknown message", wrote |-> <<>>,
          called |-> <<>>]

\* SSH.Yield (96-112) and sendHostKeys (143-168), the GetHostKeys callback
\* returning keys, no key or an error (cb), the writer taking them or not
\* (ok).
sshYield(d, cb, ok) ==
    IF d.pendingError # Nil
    THEN [device |-> d, err |-> "SSH operation failed", wrote |-> <<>>]
    ELSE IF d.hostKeysSent
    THEN [device |-> d, err |-> "nil", wrote |-> <<>>]
    ELSE IF d.GetHostKeys = "nil"
    THEN [device |-> d,
          err |-> "GetHostKeys callback is required but not provided",
          wrote |-> <<>>]
    ELSE IF cb = "fails"
    THEN [device |-> d, err |-> "error getting host keys", wrote |-> <<>>]
    ELSE IF cb = "empty"
    THEN [device |-> d, err |-> "no SSH host keys found", wrote |-> <<>>]
    ELSE IF ~ok
    THEN [device |-> d, err |-> "error sending host-keys", wrote |-> <<>>]
    ELSE [device |-> [d EXCEPT !.hostKeysSent = TRUE], err |-> "nil",
          wrote |-> <<Msg("host-keys", "", 0, <<"hostA">>, TRUE, TRUE)>>]

\* bkgModuleDone for an owner that is done as soon as it has sent.
bkgModuleDone_Always(w) == TRUE

\* ssh_owner.go 717-720: what ProduceInfo returns once it has sent.
bkgModuleDone(w) == w.done

\* BKGcred_owner.ProduceInfo (716-740), the producer taking the chunks or
\* not (ok).
bkgProduceInfo(w, ok) ==
    IF w.sent
    THEN [owner |-> w, wrote |-> <<>>, blockPeer |-> FALSE,
          moduleDone |-> bkgModuleDone(w), err |-> "nil"]
    ELSE IF ~ok
    THEN [owner |-> w, wrote |-> <<>>, blockPeer |-> FALSE,
          moduleDone |-> FALSE, err |-> "error sending"]
    ELSE [owner |-> [w EXCEPT !.sent = TRUE],
          wrote |-> <<Msg("active", "", 0, <<>>, TRUE, TRUE),
                      Msg("bkg", "", 0, <<"isawesome">>, TRUE, TRUE)>>,
          blockPeer |-> FALSE, moduleDone |-> FALSE, err |-> "nil"]

\* BKGcred_owner.HandleInfo (673-713).
bkgHandleInfo(w, m) ==
    IF m.key = "active"
    THEN [owner |-> w,
          err |-> IF ~m.valid THEN "error decoding message"
                  ELSE IF ~m.flag
                  THEN "device service info module is not active"
                  ELSE "nil"]
    ELSE IF m.key = "error"
    THEN [owner |-> w,
          err |-> IF ~m.valid THEN "error decoding message"
                  ELSE "device reported error"]
    ELSE IF m.key = "d2o"
    THEN [owner |-> w,
          err |-> IF ~m.valid THEN "error decoding message" ELSE "nil"]
    ELSE IF m.key = "done"
    THEN IF ~m.valid THEN [owner |-> w, err |-> "error decoding message"]
         ELSE [owner |-> [w EXCEPT !.done = TRUE], err |-> "nil"]
    ELSE [owner |-> w, err |-> "nil"]

\* What a device sends to BKGcred_owner, and what an owner sends to BKGcred.
BKGcredDeviceMessages ==
    {Msg(k, "", 0, <<>>, f, v) :
        k \in {"active", "error", "d2o", "done", "other"}, f, v \in BOOLEAN}
BKGcredOwnerMessages ==
    {Msg(k, "", 0, <<"isawesome">>, TRUE, v) :
        k \in {"bkg", "other"}, v \in BOOLEAN}

\* BKGcred.reset (82-85, 163-166).
bkgReset(d) == [d EXCEPT !.Name = <<>>, !.Sent = FALSE]

\* BKGcred.Receive and receive (38-64, 123-149), the same in both variants:
\* a body that does not decode leaves Name as the decoder left it, and the
\* module is then reset.
bkgReceive(d, m) ==
    IF m.key = "bkg"
    THEN IF ~m.valid THEN [device |-> bkgReset(d), err |-> "decoder error"]
         ELSE [device |-> [d EXCEPT !.Name = m.data], err |-> "nil"]
    ELSE [device |-> d, err |-> "nil"]

\* BKGcred.Yield of the first variant (68-80): both messages at the first
\* call, the encoders' errors dropped.
bkgYield1(d) ==
    IF d.Sent THEN [device |-> d, wrote |-> <<>>]
    ELSE [device |-> [d EXCEPT !.Sent = TRUE],
          wrote |-> <<Msg("d2o", "", 0, <<"teststring">>, TRUE, TRUE),
                      Msg("done", "", 0, <<>>, TRUE, TRUE)>>]

\* BKGcred.Yield of the second variant (153-161): d2o at the first call,
\* done at every later one.
bkgYield2(d) ==
    IF ~d.Sent
    THEN [device |-> [d EXCEPT !.Sent = TRUE],
          wrote |-> <<Msg("d2o", "", 0, <<"teststring">>, TRUE, TRUE)>>]
    ELSE [device |-> d, wrote |-> <<Msg("done", "", 0, <<>>, TRUE, TRUE)>>]

\* A call of a module as it is remembered.
FsCall(side, method, given, wrote, blockPeer, moduleDone, error, called) ==
    [side |-> side, method |-> method, given |-> given,
     key |-> IF given = <<>> THEN "" ELSE given[1].key,
     wrote |-> wrote, blockPeer |-> blockPeer, moduleDone |-> moduleDone,
     err |-> error, called |-> called]

\* Counting up to two.
UpToTwo(n) == IF n < 2 THEN n + 1 ELSE n

InitFsim ==
    /\ fsim \in {"ssh", "bkgcred"}
    /\ \E keys \in (IF fsim = "ssh" THEN KeyLists ELSE {<<>>}) :
          sshOwner = [AuthorizedKeys |-> keys, keyIndex |-> 0,
                      pendingResponse |-> Nil]
    /\ \E install, get \in (IF fsim = "ssh" THEN {"nil", "set"} ELSE {"nil"}) :
          sshDev = [InstallAuthorizedKey |-> install, GetHostKeys |-> get,
                    hostKeysSent |-> FALSE, pendingError |-> Nil]
    /\ bkgOwner = [sent |-> FALSE, done |-> FALSE]
    /\ bkgDev = <<[Sent |-> FALSE, Name |-> <<>>],
                  [Sent |-> FALSE, Name |-> <<>>]>>
    /\ bkgOut = <<<<>>, <<>>>>
    /\ fsLast = FsCall("none", "none", <<>>, <<>>, FALSE, FALSE, "nil", <<>>)
    /\ fsHist = [emitted |-> <<>>, dones |-> 0, over |-> FALSE,
                 active |-> FALSE, sends |-> 0, sendsSinceError |-> 0,
                 doneHandled |-> FALSE, calls |-> 0, heard |-> FALSE]
    /\ IdentifierIdle
    /\ DelegateIdle
    /\ CommandIdle
    /\ ClientIdle
    /\ PayloadIdle

\* SSHOwner.AddAuthorizedKey (163-169).
AddAuthorizedKey ==
    /\ fsim = "ssh"
    /\ Len(sshOwner.AuthorizedKeys) < MaxKeys
    /\ \E k \in {"keyA", "keyB"} :
          sshOwner' = [sshOwner EXCEPT !.AuthorizedKeys = Append(@, k)]
    /\ fsLast' = FsCall("owner", "AddAuthorizedKey", <<>>, <<>>, FALSE, FALSE,
                        "nil", <<>>)
    /\ fsHist' = [fsHist EXCEPT !.dones = 0]
    /\ UNCHANGED <<fsim, sshDev, bkgOwner, bkgDev, bkgOut, besideFsim>>

\* SSHOwner.ProduceInfo (79-134).
SSHOwnerProduceInfo ==
    /\ fsim = "ssh"
    /\ ~fsHist.over
    /\ \E ok \in BOOLEAN :
          LET r == sshProduceInfo(sshOwner, ok)
          IN  /\ sshOwner' = r.owner
              /\ fsLast' = FsCall("owner", "ProduceInfo", <<>>, r.wrote,
                                  r.blockPeer, r.moduleDone, r.err, <<>>)
              /\ fsHist' =
                   [fsHist EXCEPT
                      !.emitted = IF r.wrote # <<>> /\ r.wrote[1].key = "add-key"
                                  THEN @ \o r.wrote[1].data ELSE @,
                      !.dones = IF r.moduleDone THEN UpToTwo(@) ELSE @,
                      !.over = r.err # "nil"]
    /\ UNCHANGED <<fsim, sshDev, bkgOwner, bkgDev, bkgOut, besideFsim>>

\* SSHOwner.HandleInfo (51-76).
SSHOwnerHandleInfo ==
    /\ fsim = "ssh"
    /\ ~fsHist.over
    /\ \E m \in SSHDeviceMessages, cb \in {"nil", "succeeds", "fails"} :
          LET e == sshHandleInfo(m, cb)
          IN  /\ fsLast' = FsCall("owner", "HandleInfo", <<m>>, <<>>, FALSE,
                                  FALSE, e,
                                  IF e \in {"nil", "error handling host keys"}
                                     /\ m.key = "host-keys" /\ cb # "nil"
                                  THEN <<"OnHostKeys">> ELSE <<>>)
              /\ fsHist' = [fsHist EXCEPT !.over = e # "nil"]
    /\ UNCHANGED <<fsim, sshOwner, sshDev, bkgOwner, bkgDev, bkgOut,
                   besideFsim>>

\* SSHOwner.Reset (172-175), once the owner makes no further call.
SSHOwnerReset ==
    /\ fsim = "ssh"
    /\ fsHist.over
    /\ sshOwner.keyIndex # 0
    /\ sshOwner' = [sshOwner EXCEPT !.keyIndex = 0, !.pendingResponse = Nil]
    /\ fsLast' = FsCall("owner", "Reset", <<>>, <<>>, FALSE, FALSE, "nil", <<>>)
    /\ UNCHANGED <<fsim, sshDev, bkgOwner, bkgDev, bkgOut, fsHist, besideFsim>>

\* SSH.Transition (61-66).
SSHTransition ==
    /\ fsim = "ssh"
    /\ \E active \in BOOLEAN :
          /\ active # fsHist.active
          /\ sshDev' = IF ~active THEN sshReset(sshDev) ELSE sshDev
          /\ fsLast' = FsCall("device", "Transition", <<>>, <<>>, FALSE, FALSE,
                              "nil", <<>>)
          /\ fsHist' = [fsHist EXCEPT
                          !.active = active,
                          !.sends = IF ~active THEN 0 ELSE @,
                          !.sendsSinceError = IF ~active THEN 0 ELSE @,
                          !.heard = IF ~active THEN FALSE ELSE @]
    /\ UNCHANGED <<fsim, sshOwner, bkgOwner, bkgDev, bkgOut, besideFsim>>

\* SSH.Receive (69-75): receive, and reset when it returned an error.
SSHReceive ==
    /\ fsim = "ssh"
    /\ fsHist.active
    /\ \E m \in SSHOwnerMessages, cb \in {"succeeds", "fails"} :
          LET r == sshReceive(sshDev, m, cb)
          IN  /\ sshDev' = IF r.err # "nil" THEN sshReset(r.device)
                           ELSE r.device
              /\ fsLast' = FsCall("device", "Receive", <<m>>, r.wrote, FALSE,
                                  FALSE, r.err, r.called)
              /\ fsHist' = [fsHist EXCEPT
                              !.sendsSinceError =
                                 IF r.err # "nil" THEN 0 ELSE @,
                              !.heard = r.err = "nil" /\ sshDev.hostKeysSent]
    /\ UNCHANGED <<fsim, sshOwner, bkgOwner, bkgDev, bkgOut, besideFsim>>

\* SSH.Yield (96-112).
SSHYield ==
    /\ fsim = "ssh"
    /\ fsHist.active
    /\ \E cb \in {"succeeds", "empty", "fails"}, ok \in BOOLEAN :
          LET r == sshYield(sshDev, cb, ok)
          IN  /\ sshDev' = r.device
              /\ fsLast' = FsCall("device", "Yield", <<>>, r.wrote, FALSE,
                                  FALSE, r.err, <<>>)
              /\ fsHist' = [fsHist EXCEPT
                              !.sends = IF r.wrote # <<>> THEN UpToTwo(@)
                                        ELSE @,
                              !.sendsSinceError = IF r.wrote # <<>>
                                                  THEN UpToTwo(@) ELSE @]
    /\ UNCHANGED <<fsim, sshOwner, bkgOwner, bkgDev, bkgOut, besideFsim>>

\* BKGcred_owner.ProduceInfo (716-740).
BKGcredOwnerProduceInfo ==
    /\ fsim = "bkgcred"
    /\ ~fsHist.over
    /\ \E ok \in BOOLEAN :
          LET r == bkgProduceInfo(bkgOwner, ok)
          IN  /\ bkgOwner' = r.owner
              /\ fsLast' = FsCall("owner", "ProduceInfo", <<>>, r.wrote,
                                  r.blockPeer, r.moduleDone, r.err, <<>>)
              /\ fsHist' = [fsHist EXCEPT
                              !.dones = IF r.moduleDone THEN UpToTwo(@) ELSE @,
                              !.over = r.err # "nil"]
    /\ UNCHANGED <<fsim, sshOwner, sshDev, bkgDev, bkgOut, besideFsim>>

\* BKGcred_owner.HandleInfo (673-713).
BKGcredOwnerHandleInfo ==
    /\ fsim = "bkgcred"
    /\ ~fsHist.over
    /\ \E m \in BKGcredDeviceMessages :
          LET r == bkgHandleInfo(bkgOwner, m)
          IN  /\ bkgOwner' = r.owner
              /\ fsLast' = FsCall("owner", "HandleInfo", <<m>>, <<>>, FALSE,
                                  FALSE, r.err, <<>>)
              /\ fsHist' = [fsHist EXCEPT
                              !.doneHandled =
                                 @ \/ (m.key = "done" /\ r.err = "nil"),
                              !.over = r.err # "nil"]
    /\ UNCHANGED <<fsim, sshOwner, sshDev, bkgDev, bkgOut, besideFsim>>

\* BKGcred.Transition (31-35, 117-120), on both variants.
BKGcredTransition ==
    /\ fsim = "bkgcred"
    /\ fsHist.calls > 0
    /\ bkgDev' = <<bkgReset(bkgDev[1]), bkgReset(bkgDev[2])>>
    /\ bkgOut' = <<<<>>, <<>>>>
    /\ fsLast' = FsCall("device", "Transition", <<>>, <<>>, FALSE, FALSE, "nil",
                        <<>>)
    /\ fsHist' = [fsHist EXCEPT !.calls = 0]
    /\ UNCHANGED <<fsim, sshOwner, sshDev, bkgOwner, besideFsim>>

\* BKGcred.Receive (38-44, 123-129), on both variants.
BKGcredReceive ==
    /\ fsim = "bkgcred"
    /\ fsHist.calls < MaxYields
    /\ \E m \in BKGcredOwnerMessages :
          /\ bkgDev' = <<bkgReceive(bkgDev[1], m).device,
                         bkgReceive(bkgDev[2], m).device>>
          /\ fsLast' = FsCall("device", "Receive", <<m>>, <<>>, FALSE, FALSE,
                              bkgReceive(bkgDev[1], m).err, <<>>)
    /\ fsHist' = [fsHist EXCEPT !.calls = @ + 1]
    /\ UNCHANGED <<fsim, sshOwner, sshDev, bkgOwner, bkgOut, besideFsim>>

\* BKGcred.Yield (68-80, 153-161), on both variants.
BKGcredYield ==
    /\ fsim = "bkgcred"
    /\ fsHist.calls < MaxYields
    /\ bkgDev' = <<bkgYield1(bkgDev[1]).device, bkgYield2(bkgDev[2]).device>>
    /\ bkgOut' = <<bkgOut[1] \o bkgYield1(bkgDev[1]).wrote,
                   bkgOut[2] \o bkgYield2(bkgDev[2]).wrote>>
    /\ fsLast' = FsCall("device", "Yield", <<>>, <<>>, FALSE, FALSE, "nil",
                        <<>>)
    /\ fsHist' = [fsHist EXCEPT !.calls = @ + 1]
    /\ UNCHANGED <<fsim, sshOwner, sshDev, bkgOwner, besideFsim>>

NextFsim ==
    \/ AddAuthorizedKey
    \/ SSHOwnerProduceInfo
    \/ SSHOwnerHandleInfo
    \/ SSHOwnerReset
    \/ SSHTransition
    \/ SSHReceive
    \/ SSHYield
    \/ BKGcredOwnerProduceInfo
    \/ BKGcredOwnerHandleInfo
    \/ BKGcredTransition
    \/ BKGcredReceive
    \/ BKGcredYield

SpecFsim == InitFsim /\ [][NextFsim]_vars

\* The owner modules, each run by itself: fdo.payload, fdo.ssh and BKGcred.
InitOwnerModules == InitPayload \/ InitFsim
NextOwnerModules == NextPayload \/ NextFsim
SpecOwnerModules == InitOwnerModules /\ [][NextOwnerModules]_vars

----------------------------------------------------------------------------
(* Claims about identifier matching, checked under SpecIdentifier.         *)

\* The comma-separated terms of s, spaces ignored, as a set: the maximal
\* comma-free stretches of s, found by position.
TermsOf(s) ==
    LET t == RemoveSpaces(s)
    IN  { SubSeq(t, i, j) : <<i, j>> \in
            { <<a, b>> \in (1..(Len(t) + 1)) \X (0..Len(t)) :
                /\ b >= a - 1
                /\ (a = 1 \/ t[a - 1] = ",")
                /\ (b = Len(t) \/ t[b + 1] = ",")
                /\ \A k \in a..b : t[k] # "," } }

\* C6: IsPermittedIdentifierRule(child, parent) is true exactly when every
\* comma-separated term of child matches at least one comma-separated term
\* of parent, whatever the order of the terms on either side.
C6_EveryChildTermMatchesSomeParentTerm ==
    idPc = "done" =>
        ((idResult = "true") <=>
            \A c \in TermsOf(idChild) : \E p \in TermsOf(idParent) : matched(c, p))

\* C6 witness: a child of two terms, one matching the parent and one not,
\* has been refused.
C6_Witness ==
    /\ idPc = "done"
    /\ idChild = <<"a", ",", "A">>
    /\ idParent = <<"a">>
    /\ idResult = "false"

\* The wildcard as C7 states it: the candidate equals the pattern with each
\* `*` replaced by some, possibly empty, sequence of characters; every other
\* character stands for itself.
RECURSIVE Wildcard(_, _)
Wildcard(pattern, candidate) ==
    IF pattern = <<>> THEN candidate = <<>>
    ELSE IF Head(pattern) = "*"
         THEN \E k \in 0..Len(candidate) :
                 Wildcard(Tail(pattern), SubSeq(candidate, k + 1, Len(candidate)))
         ELSE /\ candidate # <<>>
              /\ Head(candidate) = Head(pattern)
              /\ Wildcard(Tail(pattern), Tail(candidate))

SingleTerm(s) == \A i \in 1..Len(s) : s[i] # ","

\* C7: a pattern term matches a candidate term iff the candidate equals the
\* pattern with each `*` replaced by some (possibly empty) character
\* sequence, spaces on both sides ignored; a `*` in the candidate is an
\* ordinary character.
C7_MatchIsWildcard ==
    (idPc = "done" /\ SingleTerm(idChild) /\ SingleTerm(idParent)) =>
        ((idResult = "true") <=>
            Wildcard(RemoveSpaces(idParent), RemoveSpaces(idChild)))

----------------------------------------------------------------------------
(* Claims about VerifyDelegateChain, checked under SpecDelegate.           *)

\* The function OID o is among the extensions of c.
carriesOID(c, o) == \E k \in 1..Len(c.Extensions) : c.Extensions[k].Id = o

\* The identifier the leaf declares and the constraints the i-th
\* certificate of the chain declares (the empty string: none).
leafIdentifier == GetCertIdentifierStr(chain[1])
constraintsOf(i) == getIdentConstraints(chain[i])
rootConstraints == constraintsOf(Len(chain))

\* C1: if VerifyDelegateChain succeeds, the Identifier of the leaf is
\* permitted, under IsPermittedIdentifierRule, by the IdentifierConstraints
\* of every certificate above it that declares constraints, not only by the
\* nearest one.
C1_LeafPermittedByEveryAncestor ==
    err = "nil" =>
        \A i \in 2..Len(chain) :
            constraintsOf(i) # <<>> =>
                IsPermittedIdentifierRule(leafIdentifier, constraintsOf(i))

\* C1 witness: a chain of three has verified whose leaf declares an
\* identifier and whose two CAs declare different constraints.
C1_Witness ==
    /\ err = "nil"
    /\ Len(chain) = 3
    /\ leafIdentifier = S_srv
    /\ constraintsOf(2) = S_sub
    /\ constraintsOf(3) = RemoveSpaces(S_two)

\* C2: when a function OID is supplied, VerifyDelegateChain succeeds only if
\* the OID is among the extensions of every certificate walked: those of the
\* chain given and the owner certificate appended when an owner key is given.
C2_OIDOnEveryWalkedCertificate ==
    (err = "nil" /\ oid # Nil) =>
        LET walked == walkedChain(chain, ownerKey, oid)
        IN  \A i \in 1..Len(walked) : carriesOID(walked[i], Deref(oid))

\* C2 witness: a chain of three has verified for the redirect OID with an
\* owner key.
C2_Witness ==
    /\ err = "nil"
    /\ oid = Ptr(OID_delegateRedirect)
    /\ ownerKey # Nil
    /\ Len(chain) = 3

\* C3: when an owner key is supplied, VerifyDelegateChain succeeds only if
\* the last certificate of the chain given is signed by the owner key.
C3_LastCertificateSignedByOwnerKey ==
    (err = "nil" /\ ownerKey # Nil) =>
        chain[Len(chain)].SignedBy = Deref(ownerKey)

\* C3 witness: a chain of three whose signing keys were chosen freely has
\* verified with the owner key kB.
C3_Witness ==
    /\ err = "nil"
    /\ vary = "sig"
    /\ ownerKey = Ptr("kB")
    /\ Len(chain) = 3

\* C4 as claimed: with a named owner N and root constraints R,
\* VerifyDelegateChain succeeds only if N is permitted by R.
C4_NamedOwnerPermittedByRoot ==
    (err = "nil" /\ namedOwner # Nil /\ rootConstraints # <<>>) =>
        IsPermittedIdentifierRule(Deref(namedOwner), rootConstraints)

\* C4 as amended: with a named owner N and root constraints R,
\* VerifyDelegateChain succeeds only if R is permitted by N, that is every
\* term of R matches at least one pattern of N.
C4_RootPermittedByNamedOwner ==
    (err = "nil" /\ namedOwner # Nil /\ rootConstraints # <<>>) =>
        IsPermittedIdentifierRule(rootConstraints, Deref(namedOwner))

\* C4 witness: a chain whose root is scoped to *.s.d has verified, without
\* owner key, for the named owner *.d.
C4_Witness ==
    /\ err = "nil"
    /\ ownerKey = Nil
    /\ namedOwner = Ptr(S_dom)
    /\ rootConstraints = S_sub

\* C5: with root constraints R and a named owner N, VerifyDelegateChain
\* accepts a chain it accepts without named owner exactly when every term of
\* R matches a pattern of N; without root constraints the named owner is not
\* checked.
C5_NamedOwnerDecides ==
    (err # "pending" /\ namedOwner # Nil) =>
        ((err = "nil") <=>
            /\ VerifyDelegateChain(chain, ownerKey, oid, Nil) = "nil"
            /\ \/ rootConstraints = <<>>
               \/ IsPermittedIdentifierRule(rootConstraints, Deref(namedOwner)))

\* C5 witness: the chain *.s.d / *.s.d / v.s.d (root to leaf) has verified
\* with its owner key for the named owner *.d.
C5_Witness ==
    /\ err = "nil"
    /\ ownerKey # Nil
    /\ namedOwner = Ptr(S_dom)
    /\ Len(chain) = 3
    /\ rootConstraints = S_sub
    /\ leafIdentifier = S_srv

\* A chain [leaf, intermediate, root] of certificates as GenerateDelegate
\* makes them, each signed by the next and the root by the owner key, each
\* carrying the checked OID, verified without named owner.
C8_ChainAsGenerated ==
    /\ err # "pending"
    /\ Len(chain) = 3
    /\ \A i \in 1..3 :
          /\ chain[i].BasicConstraintsValid
          /\ chain[i].IsCA = (i # 1)
          /\ chain[i].KeyUsage = IF i # 1 THEN {"DigitalSignature", "CertSign"}
                                 ELSE {"DigitalSignature"}
    /\ \A i \in 1..2 : chain[i].SignedBy = chain[i + 1].PublicKey
    /\ ownerKey # Nil
    /\ chain[3].SignedBy = Deref(ownerKey)
    /\ oid # Nil
    /\ \A i \in 1..3 : carriesOID(chain[i], Deref(oid))
    /\ namedOwner = Nil

\* The leaf declares an identifier that is permitted by the constraints the
\* intermediate declares, and these are permitted by the root's.
C8_IdentifiersNested ==
    /\ leafIdentifier # <<>>
    /\ constraintsOf(2) # <<>>
    /\ IsPermittedIdentifierRule(leafIdentifier, constraintsOf(2))
    /\ IsPermittedIdentifierRule(constraintsOf(2), constraintsOf(3))

\* C8 as claimed: such a chain is accepted.
C8_GeneratedChainAccepted ==
    (C8_ChainAsGenerated /\ C8_IdentifiersNested) => err = "nil"

\* C8 as amended: such a chain is accepted when, besides, each certificate
\* names as its issuer the subject of the next and the owner key is an ECDSA
\* or RSA key.
C8_NamedGeneratedChainAccepted ==
    ( /\ C8_ChainAsGenerated
      /\ C8_IdentifiersNested
      /\ \A i \in 1..2 : chain[i].Issuer = chain[i + 1].Subject
      /\ KeyType(Deref(ownerKey)) \in {"ecdsa", "rsa"} )
    => err = "nil"

\* C8 witness: the chain of the claim, root *.d,*.b over *.s.d over v.s.d,
\* has verified for onboard with its owner key.
C8_Witness ==
    /\ C8_ChainAsGenerated
    /\ err = "nil"
    /\ oid = Ptr(OID_delegateOnboard)
    /\ leafIdentifier = S_srv
    /\ constraintsOf(2) = S_sub
    /\ constraintsOf(3) = RemoveSpaces(S_two)

\* C9: verification fails whenever a certificate above the leaf declares
\* IdentifierConstraints while the certificate directly below it declares
\* none, whatever is declared further down.
C9_ConstraintsOverNothingRefused ==
    ( /\ err # "pending"
      /\ \E i \in 2..Len(chain) :
            constraintsOf(i) # <<>> /\ constrsAt(chain, i - 1) = <<>> )
    => err # "nil"

\* C9 witness: a root with constraints over an intermediate without, over a
\* leaf with an identifier, has been refused for that reason.
C9_Witness ==
    /\ err = "No NamedIdentifer"
    /\ Len(chain) = 3
    /\ leafIdentifier # <<>>
    /\ constraintsOf(2) = <<>>
    /\ constraintsOf(3) # <<>>

\* C10: VerifyDelegateChain succeeds only if every certificate walked has
\* BasicConstraintsValid and the DigitalSignature key usage, and every one
\* but the leaf also IsCA and the CertSign key usage.
C10_UsageOnEveryWalkedCertificate ==
    err = "nil" =>
        LET walked == walkedChain(chain, ownerKey, oid)
        IN  \A i \in 1..Len(walked) :
                /\ walked[i].BasicConstraintsValid
                /\ "DigitalSignature" \in walked[i].KeyUsage
                /\ i # 1 => (walked[i].IsCA /\ "CertSign" \in walked[i].KeyUsage)

\* C10 witness: a chain of three certificates whose key usage and basic
\* constraints were chosen freely has verified with an owner key.
C10_Witness ==
    /\ err = "nil"
    /\ vary = "usage"
    /\ ownerKey # Nil
    /\ Len(chain) = 3

----------------------------------------------------------------------------
(* Claims about the delegate command, checked under SpecCommand.           *)

\* C11: the chain delegate create stores is leaf first, each certificate
\* signed by the key certified in the next one and the last one signed by
\* the owner key, and delegate print with the owner key type it was created
\* for, run after it, finds it accepted by VerifyDelegateChain.
C11_StoredChainLeafFirstAndAccepted ==
    createErr = "nil" =>
        LET stored == Deref(delegateKeys).chain
        IN  /\ \A i \in 1..(Len(stored) - 1) :
                   stored[i].SignedBy = stored[i + 1].PublicKey
            /\ stored[Len(stored)].SignedBy = Deref(OwnerKey(args[1]))
            /\ (printErr \notin {"pending", "not found"}
                    /\ printArg = Ptr(args[1]))
                   => printErr = "nil"

----------------------------------------------------------------------------
(* Claims about the client, checked under SpecClient.                      *)

\* The attempts of one kind made so far, by their place in attempts.
AttemptsOf(kind) == {k \in 1..Len(attempts) : attempts[k].kind = kind}

SuccessfulTO2 == {k \in AttemptsOf("TO2") : attempts[k].ok}

\* C12: the blob on disk changes only to the credential of a TO2 attempt
\* that succeeded; and when the client, not in -rv-only mode, has finished
\* without a successful TO2 it has returned "transfer of ownership not
\* successful" and the blob is as it was.
C12_CredentialStoredOnlyAfterSuccess ==
    /\ blob # OldCredential =>
           \E k \in SuccessfulTO2 : blob = [owner |-> attempts[k].addr]
    /\ (clPc = "done" /\ ~rvOnly /\ SuccessfulTO2 = {}) =>
           /\ clientErr = "transfer of ownership not successful"
           /\ blob = OldCredential

\* C12 witness: a TO1 attempt failed, a later one succeeded, every TO2
\* address failed, and the client has returned the error.
C12_Witness ==
    /\ clPc = "done"
    /\ clientErr = "transfer of ownership not successful"
    /\ blob = OldCredential
    /\ \E k \in AttemptsOf("TO1") : ~attempts[k].ok
    /\ \E k \in AttemptsOf("TO1") : attempts[k].ok
    /\ Cardinality(AttemptsOf("TO2")) >= 2

\* p comes before q: an earlier directive or list, or the same one and an
\* earlier address.
Before(p, q) == p[1] < q[1] \/ (p[1] = q[1] /\ p[2] < q[2])

\* The targets transferOwnership has: in client.go the TO1 addresses and
\* the TO2 addresses collected, in part_004 one TO1 target for each
\* directive that can be used and the TO2 addresses TO1 returned for it.
TO1Tried(k) == \E a \in AttemptsOf("TO1") : attempts[a].pos[1] = k

\* C13: attempts of a kind are made in the order of their targets, each
\* target at most once and none passed over; nothing is attempted after a
\* successful TO2, whose credential is the result; and transferOwnership
\* gives up only when every target has been tried.
C13_AttemptsInOrderUntilSuccess ==
    /\ \A a, b \in 1..Len(attempts) :
           (a < b /\ attempts[a].kind = attempts[b].kind)
               => Before(attempts[a].pos, attempts[b].pos)
    /\ \A a \in AttemptsOf("TO2") :
           /\ attempts[a].pos[2] = 1
                  \/ (a > 1 /\ attempts[a - 1].kind = "TO2"
                      /\ ~attempts[a - 1].ok
                      /\ attempts[a - 1].pos
                             = <<attempts[a].pos[1], attempts[a].pos[2] - 1>>)
           /\ IF build = "client.go"
              THEN attempts[a].addr = to2URLs[attempts[a].pos[2]]
              ELSE \E t \in AttemptsOf("TO1") :
                      /\ t < a
                      /\ attempts[t].pos[1] = attempts[a].pos[1]
                      /\ attempts[a].pos[2] <= Len(attempts[t].rv)
                      /\ attempts[a].addr = attempts[t].rv[attempts[a].pos[2]]
    /\ \A a \in SuccessfulTO2 :
           a = Len(attempts) /\ newDC = Ptr([owner |-> attempts[a].addr])
    /\ SuccessfulTO2 = {} => newDC = Nil
    /\ (build = "client.go" /\ AttemptsOf("TO1") # {}) =>
           LET last == CHOOSE a \in AttemptsOf("TO1") :
                           \A b \in AttemptsOf("TO1") : b <= a
           IN  /\ \A k \in 1..attempts[last].pos[1] : TO1Tried(k)
               /\ \A b \in AttemptsOf("TO1") : attempts[b].ok => b = last
    /\ (clPc = "done" /\ ~rvOnly /\ SuccessfulTO2 = {}) =>
           IF build = "client.go"
           THEN /\ to1d # Nil \/ \A k \in 1..Len(rvInfo.to1URLs) : TO1Tried(k)
                /\ Cardinality(AttemptsOf("TO2")) = Len(to2URLs)
           ELSE /\ \A k \in 1..Len(rvInfo) :
                       (rvInfo[k].http /\ (rvInfo[k].dns \/ rvInfo[k].ip))
                           => TO1Tried(k)
                /\ \A a \in AttemptsOf("TO1") :
                       attempts[a].rv # <<>> =>
                           \A j \in 1..Len(attempts[a].rv) :
                               \E t \in AttemptsOf("TO2") :
                                   attempts[t].pos = <<attempts[a].pos[1], j>>

\* C13 witness: after a failed TO1 and a successful one, a TO2 attempt
\* failed and the next succeeded, and its credential was returned.
C13_Witness ==
    /\ clPc = "done"
    /\ \E k \in AttemptsOf("TO1") : ~attempts[k].ok
    /\ \E k \in AttemptsOf("TO2") : ~attempts[k].ok
    /\ SuccessfulTO2 # {}
    /\ newDC # Nil
    /\ blob = Deref(newDC)

\* The owner addresses obtained before the attempt at place k: those of
\* the bypass directives, and those of a TO1 response received earlier.
AddressesObtained(k) ==
    (IF build = "client.go"
     THEN {rvInfo.to2URLs[j] : j \in 1..Len(rvInfo.to2URLs)} ELSE {})
    \cup UNION {{attempts[a].rv[j] : j \in 1..Len(attempts[a].rv)} :
                   a \in {a \in AttemptsOf("TO1") : a < k /\ attempts[a].ok}}

\* C14: every TO2 attempt is made at an address obtained from a successful
\* TO1 response or from a bypass directive, never at an entry without
\* address, and with -rv-only no TO2 attempt is made.
C14_TO2OnlyAtObtainedAddresses ==
    /\ \A k \in AttemptsOf("TO2") :
           attempts[k].addr \in AddressesObtained(k) \ {"none"}
    /\ rvOnly => AttemptsOf("TO2") = {}

\* C14 witness: with -rv-only, TO1 has returned owner addresses and the
\* client has finished.
C14_Witness ==
    /\ rvOnly
    /\ clPc = "done"
    /\ \E k \in AttemptsOf("TO1") : attempts[k].ok /\ attempts[k].rv # <<>>
    /\ clientErr \in {"nil", "transfer of ownership not successful"}

----------------------------------------------------------------------------
(* Claims about fdo.payload.                                               *)

RECURSIVE Concat(_)
\* The chunks of a sequence joined in order.
Concat(chunks) ==
    IF chunks = <<>> THEN <<>> ELSE Head(chunks) \o Concat(Tail(chunks))

\* The Data of the payload the owner is transferring.
CurrentData == payloads[Deref(ownerP.currentPayload) + 1].Data

\* The chunk size the owner uses once a payload has begun.
EffectiveChunkSize == ownerP.chunkSize

\* C15: the data chunks the owner has emitted for its current payload are
\* consecutive slices of its Data, each of at most chunkSize bytes, and they
\* are all of Data when the owner writes end; and when end arrives at a
\* device that took every chunk, the bytes given to ReceiveChunk are Data
\* and the device has counted len(Data) bytes.
C15_ChunksAreSlicesAndDeviceReceivesData ==
    /\ ownerP.currentPayload # Nil =>
          /\ Concat(plHist.sentChunks) = SubSeq(CurrentData, 1, ownerP.bytesSent)
          /\ \A k \in 1..Len(plHist.sentChunks) :
                Len(plHist.sentChunks[k]) <= EffectiveChunkSize
          /\ (plLast.method = "ProduceInfo" /\ plLast.wrote # <<>>
              /\ plLast.wrote[1].key = "end") =>
                Concat(plHist.sentChunks) = CurrentData
    /\ (peers = "both" /\ "device" \notin plOver /\ deviceP.receiving
        /\ toDevice # <<>> /\ Head(toDevice).key = "end") =>
          /\ ownerP.currentPayload # Nil
          /\ handler.received = CurrentData
          /\ deviceP.totalBytes = Len(CurrentData)

\* A payload of three bytes sent in chunks of two bytes and one byte, end
\* at the device.
C15_Witness ==
    /\ peers = "both"
    /\ "device" \notin plOver
    /\ deviceP.receiving
    /\ toDevice # <<>>
    /\ Head(toDevice).key = "end"
    /\ plHist.sentChunks = <<<<1, 2>>, <<3>>>>
    /\ handler.received = <<1, 2, 3>>

\* What the last call wrote, when it was ProduceInfo: "" for nothing.
Produced ==
    IF plLast.method = "ProduceInfo" /\ plLast.wrote # <<>>
    THEN plLast.wrote[1].key ELSE ""

\* C16: a ProduceInfo call made while a data chunk is unacknowledged writes
\* nothing and returns blockPeer = true; a data chunk or an end is written
\* only when every earlier data chunk has had its ack handled.
C16_NothingEmittedWhileAckOutstanding ==
    plLast.method = "ProduceInfo" =>
       /\ Produced = "data" => plHist.unacked = 1
       /\ Produced = "end" => plHist.unacked = 0
       /\ (plHist.unacked >= 1 /\ Produced # "data") =>
             plLast.wrote = <<>> /\ plLast.blockPeer

\* ProduceInfo called with a data chunk unacknowledged.
C16_Witness ==
    /\ plLast.method = "ProduceInfo"
    /\ plHist.unacked = 1
    /\ plLast.wrote = <<>>
    /\ plLast.blockPeer
    /\ ownerP.waitingForAck

\* C17: the first data chunk of a payload is written only after the owner
\* has handled ready = true since that payload's begin.
C17_FirstDataOnlyAfterReady ==
    (Produced = "data" /\ Len(plHist.sentChunks) = 1) => plHist.readyHandled

Called(name) == \E k \in DOMAIN plLast.called : plLast.called[k] = name

\* The last call answered with the key and number given.
Answered(key, n) ==
    /\ Len(plLast.wrote) = 1
    /\ plLast.wrote[1].key = key
    /\ plLast.wrote[1].n = n

\* The device was receiving before the last call, and had all the bytes of
\* a declared size.
EndAcceptable ==
    /\ plLast.before.receiving
    /\ plLast.before.expectedSize > 0 =>
          plLast.before.totalBytes = plLast.before.expectedSize

\* C19: a Receive of end calls EndPayload, and answers result, only when a
\* transfer was in progress and a declared size was met; otherwise it
\* answers error 6 and does not call EndPayload.
C19_EndPayloadOnlyForCompleteTransfer ==
    (plLast.method = "Receive" /\ plLast.key = "end") =>
       /\ Called("EndPayload") => EndAcceptable
       /\ Answered("result", 0) => EndAcceptable /\ Called("EndPayload")
       /\ ~EndAcceptable => Answered("error", 6) /\ ~Called("EndPayload")

\* end received with fewer bytes than begin declared.
C19_Witness ==
    /\ plLast.method = "Receive"
    /\ plLast.key = "end"
    /\ plLast.before.receiving
    /\ plLast.before.expectedSize = 2
    /\ plLast.before.totalBytes = 1
    /\ Answered("error", 6)
    /\ ~deviceP.receiving

\* C20: the ack that answers a data chunk carries the number of bytes given
\* to the handler since the begin it accepted, this chunk included; and the
\* owner's HandleInfo of an ack returns the ack-mismatch error exactly when
\* the number differs from the bytes sent of the current payload.
C20_AckCarriesTotalAndOwnerComparesIt ==
    /\ (plLast.method = "Receive" /\ Len(plLast.wrote) = 1
        /\ plLast.wrote[1].key = "ack") =>
          /\ plLast.key = "data"
          /\ plLast.wrote[1].n = Len(handler.received)
          /\ plLast.wrote[1].n =
                plLast.before.totalBytes + Len(plLast.given[1].data)
          /\ deviceP.totalBytes = plLast.wrote[1].n
    /\ (plLast.method = "HandleInfo" /\ plLast.key = "ack") =>
          /\ plLast.err = "ack mismatch" <=>
                plLast.given[1].n # ownerP.bytesSent
          /\ plLast.err = "nil" <=> plLast.given[1].n = ownerP.bytesSent
          /\ plLast.err # "nil" => "owner" \in plOver

\* The ack of the second chunk, carrying 3 for chunks of two bytes and one
\* byte, accepted by the owner.
C20_Witness ==
    /\ peers = "both"
    /\ plLast.method = "HandleInfo"
    /\ plLast.key = "ack"
    /\ plLast.given[1].n = 3
    /\ plHist.sentChunks = <<<<1, 2>>, <<3>>>>
    /\ plLast.err = "nil"
    /\ "owner" \notin plOver

\* C21: a begin with a MIME type the handler does not support is answered
\* with error 1 without BeginPayload being called and leaves the device not
\* receiving; a data or an end received after it, with no accepted begin in
\* between, is answered with error 6 and reaches no handler method.
C21_UnsupportedMimeRefused ==
    plLast.method = "Receive" =>
       /\ (plLast.key = "begin" /\ plLast.before.Handler
           /\ plLast.given[1].valid /\ plLast.given[1].mime = "unsupported") =>
             /\ Answered("error", 1)
             /\ ~Called("BeginPayload")
             /\ ~deviceP.receiving
             /\ plHist.refused
       /\ (plLast.key \in {"data", "end"} /\ plHist.refused) =>
             /\ Answered("error", 6)
             /\ ~Called("ReceiveChunk")
             /\ ~Called("EndPayload")
             /\ ~deviceP.receiving

\* A data chunk answered with error 6 after a transfer in progress was
\* interrupted by a begin with an unsupported MIME type.
C21_Witness ==
    /\ peers = "device"
    /\ plLast.method = "Receive"
    /\ plLast.key = "data"
    /\ plHist.refused
    /\ Answered("error", 6)
    /\ handler.received # <<>>

----------------------------------------------------------------------------
(* Claims about the owner modules, fdo.ssh and BKGcred.                    *)

\* The last call was ProduceInfo of the PayloadOwner, of the SSHOwner, of
\* the BKGcred_owner.
PayloadProduced == peers # "none" /\ plLast.method = "ProduceInfo"
SSHProduced ==
    fsim = "ssh" /\ fsLast.side = "owner" /\ fsLast.method = "ProduceInfo"
BKGcredProduced ==
    fsim = "bkgcred" /\ fsLast.side = "owner" /\ fsLast.method = "ProduceInfo"

\* C22: ProduceInfo returns moduleDone = true only when a result has been
\* handled for every payload (PayloadOwner), every authorized key has been
\* written (SSHOwner), the device's done has been handled (BKGcred_owner);
\* and a ProduceInfo call made once moduleDone = true was returned writes
\* nothing, unless a key was added since.
C22_ModuleDoneOnlyWhenNothingLeft ==
    /\ PayloadProduced =>
          /\ plLast.moduleDone => plHist.results = Len(payloads)
          /\ plHist.dones >= 1 => plLast.wrote = <<>>
    /\ SSHProduced =>
          /\ fsLast.moduleDone => fsHist.emitted = sshOwner.AuthorizedKeys
          /\ fsHist.dones >= 1 => fsLast.wrote = <<>>
    /\ BKGcredProduced =>
          /\ fsLast.moduleDone => fsHist.doneHandled
          /\ fsHist.dones >= 1 => fsLast.wrote = <<>>

\* The PayloadOwner reporting done a second time, after a result for each of
\* its two payloads.
C22_Witness ==
    /\ PayloadProduced
    /\ peers = "both"
    /\ Len(payloads) = 2
    /\ plLast.moduleDone
    /\ plHist.dones = 2
    /\ plHist.results = 2

\* C23: the add-key messages SSHOwner has written are the entries of
\* AuthorizedKeys up to keyIndex, in list order; a ProduceInfo call writes at
\* most one of them; and it returns moduleDone = true exactly when every
\* entry had been written before the call.
C23_OneAddKeyPerEntryInOrder ==
    (fsim = "ssh" /\ ~fsHist.over) =>
       /\ sshOwner.keyIndex <= Len(sshOwner.AuthorizedKeys)
       /\ fsHist.emitted =
             SubSeq(sshOwner.AuthorizedKeys, 1, sshOwner.keyIndex)
       /\ SSHProduced =>
             /\ Len(fsLast.wrote) <= 1
             /\ fsLast.wrote # <<>> =>
                   /\ fsLast.wrote[1].key = "add-key"
                   /\ fsLast.wrote[1].data =
                         <<sshOwner.AuthorizedKeys[sshOwner.keyIndex]>>
             /\ fsLast.moduleDone <=>
                   (fsLast.wrote = <<>>
                    /\ fsHist.emitted = sshOwner.AuthorizedKeys)

\* The call after two entries were written, one per call.
C23_Witness ==
    /\ SSHProduced
    /\ fsHist.emitted = <<"keyA", "keyB">>
    /\ fsLast.moduleDone
    /\ fsHist.dones = 2

\* The last call was a Receive of the device SSH module.
SSHReceived ==
    fsim = "ssh" /\ fsLast.side = "device" /\ fsLast.method = "Receive"

\* C24: a Receive of add-key that fails writes an error message carrying a
\* code from 1 to 5.
C24_AddKeyFailureAnsweredWithError ==
    (SSHReceived /\ fsLast.key = "add-key" /\ fsLast.err # "nil") =>
       /\ Len(fsLast.wrote) = 1
       /\ fsLast.wrote[1].key = "error"
       /\ fsLast.wrote[1].n \in 1..5

C26_BKGcredVariantsEquivalent ==
    fsim = "bkgcred" =>
       /\ bkgOut[1] = bkgOut[2]
       /\ bkgDev[1] = bkgDev[2]

----------------------------------------------------------------------------
(* Claims about IsPermittedIdentifier, the function OIDs and empty chains. *)

\* C27 as stated: IsPermittedIdentifier(x, x) is true for every x.
C27_PermittedIsReflexive ==
    idPc = "done" => idResult.self

\* C27: IsPermittedIdentifier(x, x) is true for every x that holds no
\* comma, with or without wildcards and spaces.
C27_PermittedIsReflexiveWithoutComma ==
    (idPc = "done" /\ \A i \in 1..Len(idChild) : idChild[i] # ",") =>
       idResult.self

\* A name with a wildcard and a space, permitted by itself.
C27_Witness ==
    /\ idPc = "done"
    /\ idChild = <<"*", " ">>
    /\ idResult.self

\* C28: IsPermittedIdentifier(x, a + "," + b) is IsPermittedIdentifier(x, a)
\* or IsPermittedIdentifier(x, b).
C28_PermittedDistributesOverComma ==
    idPc = "done" => (idResult.joined <=> (idResult.left \/ idResult.right))

\* A name the second list permits and the first does not.
C28_Witness ==
    /\ idPc = "done"
    /\ idResult.joined
    /\ ~idResult.left
    /\ idResult.right
    /\ Len(idParent[1]) = 2
    /\ Len(idParent[2]) = 2

\* C29: DelegateStringToOID succeeds on each of the six role names with the
\* OID of that role, DelegateOIDtoString of it is the name again, and every
\* other string is rejected with an error.
C29_RoleNamesRoundTrip ==
    (idParent = "name" /\ idPc # "toOID") =>
       IF idChild.name \in Roles
       THEN /\ idResult.err = "nil"
            /\ idResult.oid = RoleOID(idChild.name)
            /\ idPc = "done" => idResult.name = idChild.name
       ELSE idResult.err # "nil"

\* C30: VerifyDelegateChain of an empty chain returns the empty-chain error
\* whatever owner key, function OID and named owner it is given, and
\* GetIdentifier of an empty chain returns an error and no identifier.
C30_EmptyChainFails ==
    /\ (vary # "none" /\ err # "pending" /\ chain = <<>>) =>
          err = "Empty chain"
    /\ (vary # "none" /\ gotIdentifier.called /\ gotIdentifier.of = 0) =>
          /\ gotIdentifier.err = "Cannot verify empty chain"
          /\ gotIdentifier.id = Nil

\* An empty chain verified against an owner key of a type the function
\* would refuse, and its identifier read.
C30_Witness ==
    /\ vary = "sig"
    /\ chain = <<>>
    /\ err = "Empty chain"
    /\ ownerKey = Ptr("kEd")
    /\ gotIdentifier.called
    /\ gotIdentifier.err = "Cannot verify empty chain"

----------------------------------------------------------------------------
(* C31: HmacVerify returns nil exactly when the HMAC recomputed over the   *)
(* value, with the algorithm named in the given HMAC, has the given bytes; *)
(* a mismatch gives an error that wraps ErrCryptoVerifyFailed; a failure   *)
(* to compute the HMAC is returned as it is and wraps no such error.       *)
C31_HmacVerifyResult ==
    idPc = "done" =>
        LET recomputed == Hmac(idChild.dc, idChild.h1.Algorithm, idChild.v)
            matches == /\ recomputed.err = NoError
                       /\ recomputed.hmac.Value = idChild.h1.Value
        IN  /\ idResult = NoError <=> matches
            /\ (recomputed.err = NoError /\ ~matches) =>
                  idResult.wraps = "ErrCryptoVerifyFailed"
            /\ recomputed.err # NoError =>
                  /\ idResult = recomputed.err
                  /\ idResult.wraps # "ErrCryptoVerifyFailed"

\* An HMAC of two bytes has been verified against a value of two bytes.
C31_Witness ==
    /\ idPc = "done"
    /\ Len(idChild.h1.Value) = 2
    /\ idChild.h1.Algorithm = HmacSha384Hash
    /\ idChild.v = <<1, 0>>
    /\ idResult = NoError

----------------------------------------------------------------------------
\* The protected part of the encoded header: the first item of the array.
ProtectedPart == rawItems(Tail(idParent.bytes), 2)[1]

(* C32: a header whose protected map is empty is encoded with a            *)
(* zero-length byte string as its protected part, a non-empty protected    *)
(* map as a byte string around the serialized map, and decoding either     *)
(* encoding gives a header whose protected map has the original entries.   *)
C32_ProtectedMapRoundTrips ==
    /\ idPc # "marshal" =>
          /\ idParent.err = "nil"
          /\ idChild.Protected = {} => ProtectedPart = <<64>>
          /\ idChild.Protected # {} =>
                /\ isItem(ProtectedPart, 2)
                /\ isItem(Tail(ProtectedPart), 5)
                /\ Tail(ProtectedPart)[1] % 32 = Cardinality(idChild.Protected)
    /\ idPc = "done" =>
          /\ idResult.err = "nil"
          /\ idResult.hdr.Protected = idChild.Protected

\* The same holds of the headers whose labels are all integers.
IntegerLabelledHeadersRoundTrip ==
    (\A p \in idChild.Protected \cup idChild.Unprotected : p[1].Int64 # 0)
        => C32_ProtectedMapRoundTrips

----------------------------------------------------------------------------
(* C33: every successful BeginPayload is followed by exactly one           *)
(* EndPayload or CancelPayload before the next BeginPayload, and a         *)
(* transfer that has stopped has been ended or cancelled at the handler.   *)
C33_EveryTransferEndedOrCancelled ==
    /\ plHist.open # "twice"
    /\ ~deviceP.receiving => plHist.open = "no"

\* What holds instead: the handler holds a transfer whenever the device is
\* receiving.
ReceivingTransferIsHeld == deviceP.receiving => plHist.open # "no"

----------------------------------------------------------------------------
(* C34: for each payload the owner writes one begin, then the data chunks, *)
(* then one end; after the end, ProduceInfo calls made before the device's *)
(* result arrives write nothing more for that payload.  In particular no   *)
(* two ends wait side by side for the device.                              *)
C34_OneEndPerPayload ==
    \A i \in 1..(Len(toDevice) - 1) :
        ~(toDevice[i].key = "end" /\ toDevice[i + 1].key = "end")

----------------------------------------------------------------------------
(* C35: a result handled while no payload is in progress (before any       *)
(* begin, after an error, a second result for one payload) is handled      *)
(* without a fault and leaves the payload index as it was.                 *)
C35_StrayResultHarmless ==
    (plLast.method = "HandleInfo" /\ plLast.key = "result") =>
        plLast.err # "panic: nil pointer dereference"

----------------------------------------------------------------------------
(* C36: with -rv-only, transferOwnership of client.go returns normally     *)
(* whether or not a TO1 attempt succeeded, and the client returns nil:     *)
(* also when every TO1 attempt failed and when there was no TO1 address.   *)
C36_RVOnlyReturnsNormally ==
    (build = "client.go" /\ rvOnly /\ clPc = "done") => clientErr = "nil"

\* What holds instead: with -rv-only the client returns nil when a TO1
\* attempt succeeded.
RVOnlyReturnsAfterTO1 ==
    (build = "client.go" /\ rvOnly /\ clPc = "done" /\ to1d # Nil)
        => clientErr = "nil"

----------------------------------------------------------------------------
(* C37: with a device that accepts every message the owner reaches         *)
(* moduleDone after finitely many exchanges, for every list of payloads    *)
(* and every chunk size given to SetChunkSize: ProduceInfo does not fail,  *)
(* and each data chunk carries at least one byte and at most the bytes     *)
(* that remained, so that bytesSent grows with each chunk and never        *)
(* exceeds len(Data).                                                      *)
C37_EveryChunkMakesProgress ==
    /\ plLast.method = "ProduceInfo" => plLast.err = "nil"
    /\ Produced = "data" =>
          /\ Len(plLast.wrote[1].data) >= 1
          /\ ownerP.bytesSent <= Len(CurrentData)

\* What holds instead: a data chunk written with a positive chunk size has
\* between one byte and the bytes that remained.
PositiveChunkSizeMakesProgress ==
    (Produced = "data" /\ ownerP.chunkSize > 0) =>
        /\ Len(plLast.wrote[1].data) >= 1
        /\ Len(plLast.wrote[1].data) <= ownerP.chunkSize
        /\ ownerP.bytesSent <= Len(CurrentData)

----------------------------------------------------------------------------
(* C38: IsPermittedIdentifierRule is transitive: when it holds of a and b  *)
(* and of b and c, it holds of a and c.                                    *)
C38_RuleIsTransitive ==
    (idPc = "done" /\ idResult.lower /\ idResult.upper) => idResult.across

\* Two terms under a wildcard term and a literal one, under one wildcard.
C38_Witness ==
    /\ idPc = "done"
    /\ idChild = <<"a", ",">>
    /\ idParent = <<<<",", "*">>, <<"*">>>>
    /\ idResult.lower /\ idResult.upper /\ idResult.across

----------------------------------------------------------------------------
(* C39: for every name x without comma and every rule list P,              *)
(* IsPermittedIdentifier(x, P) and IsPermittedIdentifierRule(x, P) return  *)
(* the same.                                                               *)
C39_NameAndRuleAgree ==
    (idPc = "done" /\ \A i \in 1..Len(idChild) : idChild[i] # ",") =>
        /\ idResult.left = idResult.rule
        /\ idResult.joined = idResult.ruleJoined

\* A name with a space, permitted by the second rule of a list.
C39_Witness ==
    /\ idPc = "done"
    /\ idChild = <<"a", " ">>
    /\ idParent[1] = <<",", "a">>
    /\ idResult.left /\ idResult.rule

----------------------------------------------------------------------------
\* Attempt a is TO1 at the DNS name of a directive that has an IP address
\* too; and the IP address of that directive is what is tried after it.
ByDNS(a) ==
    /\ attempts[a].kind = "TO1"
    /\ attempts[a].addr = "dns"
    /\ rvInfo[attempts[a].pos[1]].ip

IPTriedNext(a) ==
    IF a = Len(attempts) THEN clPc = "to1ip" /\ clI = attempts[a].pos[1]
    ELSE /\ attempts[a + 1].kind = "TO1"
         /\ attempts[a + 1].addr = "ip"
         /\ attempts[a + 1].pos[1] = attempts[a].pos[1]

(* C40: for a directive with a DNS name and an IP address (part_004), TO1  *)
(* is tried at the DNS name first and, when that attempt fails or gives no *)
(* TO2 address, at the IP address before the next directive is considered. *)
C40_DNSThenIP ==
    build = "part_004" =>
       /\ \A a \in 1..Len(attempts) :
             (attempts[a].kind = "TO1" /\ attempts[a].addr = "ip"
              /\ rvInfo[attempts[a].pos[1]].dns) =>
                 /\ a > 1
                 /\ ByDNS(a - 1)
                 /\ attempts[a - 1].pos[1] = attempts[a].pos[1]
       /\ \A a \in 1..Len(attempts) :
             (ByDNS(a) /\ (~attempts[a].ok \/ attempts[a].rv = <<>>))
                 => IPTriedNext(a)

\* What holds instead: the IP address is tried next when the attempt at the
\* DNS name returned without error and without a TO2 address.
IPTriedAfterEmptyAnswer ==
    build = "part_004" =>
       \A a \in 1..Len(attempts) :
           (ByDNS(a) /\ attempts[a].ok /\ attempts[a].rv = <<>>)
               => IPTriedNext(a)

============================================================================
